---- MODULE Spec2Model ----
(***************************************************************************)
(* The simulation core of Block X Bluster (the Game component of           *)
(* src/app/page.tsx) as a state machine.                                    *)
(*                                                                         *)
(* The component keeps its state in two places: refs, which a handler      *)
(* reads and writes at once, and React state, which a handler changes by   *)
(* dispatching an update that the next render applies.  The model keeps    *)
(* both, the queue of dispatched updates (pending), the render that        *)
(* applies it (Render), the effects that run after a render                *)
(* (FlushEffects), the interval timers the effects arm and clear, and the  *)
(* animation-frame callbacks in the order in which the browser runs them.  *)
(*                                                                         *)
(* Lengths are stored in quarter pixels (Px), so that the 0.5 steps of the *)
(* fall speed and the 0.5 slow-motion factor stay integers.                *)
(***************************************************************************)
EXTENDS Integers, Sequences, FiniteSets, TLC

\* ------------------------------------------------------------ bounds
\* most per-second ticks the game timer delivers in one session, in Spec
MaxTime == 1
\* the same in PowerUpSpec, where power-ups spawn (at 20 seconds)
MaxSeconds == 21
\* the same in DifficultySpec, where the difficulty reaches its limits
MaxTicks == 101
\* most bullets alive at once (a fire poll that would exceed it is not delivered)
MaxBullets == 1
\* most timer updates dispatched and not yet rendered
MaxPending == 2
\* most deferred just-hit resets outstanding (further ones coincide with the last)
MaxHitTimeouts == 1
\* most blocks spawned in one session of Spec (a wave that would exceed it is
\* not delivered); the other specifications deliver one wave a session
MaxSpawned == 1
\* PoolSpec: most bullets fired before any is recycled, one more than the pool
\* holds
MaxShots == 101
\* PoolSpec, CombatSpec: most bullets alive at once when the page is shown
MaxLive == 2

\* CombatSpec: the waves of a session
MaxWaves == 2

\* the bullets alive at once in the sessions that fire with power-ups: one
\* shot in three directions
MaxVolley == 3

\* the seconds of the sessions that spawn waves of different sizes: the wave
\* grows at 10
MaxWaveTime == 11

\* the blocks spawned in such a session
MaxBlocks == 3

\* ------------------------------------------------------------ arithmetic
Px(n) == 4 * n

Min(a, b) == IF a < b THEN a ELSE b

Max(a, b) == IF a > b THEN a ELSE b

\* ------------------------------------------------------------ program constants
MAX_BULLETS == 100

PowerUpTypes == {"fireSpeed", "multiDirectional", "slowMotion"}

NoPowerUps == [t \in PowerUpTypes |-> FALSE]

NoTimeLeft == [t \in PowerUpTypes |-> 0]

\* the movement keys, an arrow key and its letter taken as one
Directions == {"up", "down", "left", "right"}

NoKeys == [k \in Directions |-> FALSE]

playerWidth == 48

playerHeight == 48

blockWidth == 40

blockHeight == 40

powerUpWidth == 30

powerUpHeight == 30

bulletWidth == 8

bulletHeight == 16

\* ------------------------------------------------------------ state
VARIABLES
    \* refs of the core
    gameStateRef, positionRef, bulletsRef, blocksRef, powerUpsRef,
    bulletPoolRef, bulletIdRef, blockIdRef, powerUpIdRef, scoreRef,
    finalScoreRef, blockFallSpeedRef, activePowerUpsRef, needsRenderRef,
    sinceFire,
    \* React state as last rendered
    gameState, gameTime, blockSpawnRate, blockFallSpeed, blocksPerWave,
    activePowerUps, powerUpTimeLeft, score, position, isDragging,
    audioLoaded, keys, isMuted,
    \* React: dispatched updates, state whose effects have not run, a render
    \* that must finish before anything else runs (a click's)
    pending, dirty, syncFlush,
    \* interval timers and deferred actions
    gameTimerInterval, powerUpTimerInterval, firingInterval, blockInterval,
    hitTimeouts,
    \* animation-frame callbacks: requested for the next frame, left in this frame
    rafQueue, frame,
    \* the size of the game container (the window), in pixels
    container,
    \* what the startAnimationLoops held by startGame sees of the state, and
    \* what the running loops see of it
    startSees, loopSees,
    \* history: the sound cue attempted last, and whether it was delivered
    cue,
    \* history: the handler that ran last
    lastOp

refVars == <<gameStateRef, positionRef, bulletsRef, blocksRef, powerUpsRef,
             bulletPoolRef, bulletIdRef, blockIdRef, powerUpIdRef, scoreRef,
             finalScoreRef, blockFallSpeedRef, activePowerUpsRef,
             needsRenderRef, sinceFire>>

entityVars == <<bulletsRef, blocksRef, powerUpsRef, bulletPoolRef, bulletIdRef,
                blockIdRef, powerUpIdRef, scoreRef>>

stateVars == <<gameState, gameTime, blockSpawnRate, blockFallSpeed,
               blocksPerWave, activePowerUps, powerUpTimeLeft, score, position,
               isDragging, audioLoaded, keys, isMuted>>

closureVars == <<startSees, loopSees>>

reactVars == <<pending, dirty, syncFlush>>

timerVars == <<gameTimerInterval, powerUpTimerInterval, firingInterval,
               blockInterval>>

rafVars == <<rafQueue, frame>>

vars == <<refVars, stateVars, reactVars, timerVars, hitTimeouts, rafVars,
          closureVars, container, cue, lastOp>>

\* the play area: clientWidth and clientHeight of the game container
containerWidth == container.width

containerHeight == container.height

\* ------------------------------------------------------------ React updates
\* One dispatched update.  op names the setter(s); v, n, eager, tl, cb, cr are
\* its arguments (unused ones hold a fixed filler).
Update(op, v, n, eager, tl, cb, cr) ==
    [op |-> op, v |-> v, n |-> n, eager |-> eager, tl |-> tl, cb |-> cb, cr |-> cr]

SetGameStateUpdate(v) == Update("gameState", v, 0, FALSE, NoTimeLeft, 0, 0)

PublishUpdate(n) == Update("publish", "", n, FALSE, NoTimeLeft, 0, 0)

ResetUpdate == Update("reset", "", 0, FALSE, NoTimeLeft, 0, 0)

ActivateUpdate(type, eager) ==
    Update("activate", type, 0, eager, NoTimeLeft, 0, 0)

TickUpdate(eager, n, cb, cr) == Update("tick", "", n, eager, NoTimeLeft, cb, cr)

PowerUpTickUpdate(eager, tl) == Update("puTick", "", 0, eager, tl, 0, 0)

\* animatePlayer: setPosition({ x: newX, y: newY })
PositionUpdate(pos) == Update("position", "", pos.x, FALSE, NoTimeLeft, pos.y, 0)

\* handleKeyDown, handleKeyUp: setKeys((prev) => ({ ...prev, [e.key]: held }))
KeyUpdate(key, held) ==
    Update(IF held THEN "keyDown" ELSE "keyUp", key, 0, FALSE, NoTimeLeft, 0, 0)

\* toggleMute: setIsMuted((prev) => !prev)
MuteUpdate == Update("mute", "", 0, FALSE, NoTimeLeft, 0, 0)

\* the effect that makes the audio elements: setAudioLoaded(true)
AudioLoadedUpdate == Update("audioLoaded", "", 0, FALSE, NoTimeLeft, 0, 0)

\* handleTouchStart: setIsDragging(true)
DragStartUpdate == Update("dragStart", "", 0, FALSE, NoTimeLeft, 0, 0)

\* handleTouchEnd: setPosition(positionRef.current), setIsDragging(false)
DragEndUpdate(pos) == Update("dragEnd", "", pos.x, FALSE, NoTimeLeft, pos.y, 0)

RECURSIVE CountOps(_, _)
CountOps(q, ops) ==
    IF q = <<>> THEN 0
    ELSE (IF Head(q).op \in ops THEN 1 ELSE 0) + CountOps(Tail(q), ops)

\* setBullets/setBlocks/setPowerUps/setScore replace the value: of several
\* dispatched in one batch only the last one shows, so an older one is dropped.
Publish(q, n) ==
    Append(SelectSeq(q, LAMBDA u : u.op # "publish"), PublishUpdate(n))

\* An updater runs when it is dispatched if the component has no update waiting
\* (React computes the state eagerly), and in the next render otherwise.
EagerChoices(q) == IF q = <<>> THEN BOOLEAN ELSE {FALSE}

\* ------------------------------------------------------------ geometry
\* a faulty variant that C31 must tell from the program: rectangles that
\* share an edge overlap
isCollidingClosed(aLeft, aRight, aTop, aBottom, bLeft, bRight, bTop, bBottom) ==
    /\ aLeft <= bRight
    /\ aRight >= bLeft
    /\ aTop <= bBottom
    /\ aBottom >= bTop

\* lines 1018-1023, 1096-1097, 1118-1122: open-interval rectangle overlap
isColliding(aLeft, aRight, aTop, aBottom, bLeft, bRight, bTop, bBottom) ==
    /\ aLeft < bRight
    /\ aRight > bLeft
    /\ aTop < bBottom
    /\ aBottom > bTop

BulletHitsBlock(bullet, block) ==
    isColliding(bullet.x, bullet.x + Px(bulletWidth),
                bullet.y, bullet.y + Px(bulletHeight),
                block.x, block.x + Px(blockWidth),
                block.y, block.y + Px(blockHeight))

\* a faulty variant that C2 must tell from the program: an unbreakable block
\* goes through the player
PlayerHitsBreakableBlock(pos, block) ==
    /\ block.isBreakable
    /\ isColliding(pos.x, pos.x + Px(playerWidth), pos.y, pos.y + Px(playerHeight),
                   block.x, block.x + Px(blockWidth),
                   block.y, block.y + Px(blockHeight))

PlayerHitsBlock(pos, block) ==
    isColliding(pos.x, pos.x + Px(playerWidth), pos.y, pos.y + Px(playerHeight),
                block.x, block.x + Px(blockWidth),
                block.y, block.y + Px(blockHeight))

PlayerHitsPowerUp(pos, powerUp) ==
    isColliding(pos.x, pos.x + Px(playerWidth), pos.y, pos.y + Px(playerHeight),
                powerUp.x, powerUp.x + Px(powerUpWidth),
                powerUp.y, powerUp.y + Px(powerUpHeight))

\* ------------------------------------------------------------ sound
NoCue == [name |-> "none", delivered |-> FALSE]

Cue(name, delivered) == [name |-> name, delivered |-> delivered]

\* what a call of playSound may meet (line 188): no attempt while the audio
\* elements are not there or the playSound called sees the sound muted, else
\* a cue that the browser plays or refuses
Attempts(name, muted) ==
    IF audioLoaded /\ ~muted
    THEN {Cue(name, TRUE), Cue(name, FALSE)} ELSE {NoCue}

\* the cue attempted last, after a call that attempted c or none
CueAfter(c) == IF c.name = "none" THEN cue ELSE c

\* a faulty variant that C20 must tell from the program: a cue that fails
\* throws in the caller
playSoundUnguarded(c) ==
    IF c.name = "none" THEN "skipped"
    ELSE IF c.delivered THEN "played" ELSE "thrown"

\* playSound (lines 186-210): how the call ends.  The failure of a cue ends
\* in the catch of line 203 or in that of the promise, line 198.
playSound(c) ==
    IF c.name = "none" THEN "skipped"
    ELSE IF c.delivered THEN "played" ELSE "caught"

\* ------------------------------------------------------------ bullet pool
\* createBullet (lines 214-226): a pooled instance with its fields
\* overwritten, else a new one.  Only the id of a pooled instance outlives its
\* reuse, so the pool is kept as the ids.
\* a faulty variant that C13 must tell from the program: every bullet is new
createBulletAlwaysNew(pool, idc, x, y, angle) ==
    [bullet |-> [id |-> idc, x |-> x, y |-> y, angle |-> angle],
     pool   |-> pool,
     idc    |-> idc + 1]

\* a faulty variant that C14 must tell from the program: a reused instance
\* stays in the pool
createBulletLeavesPooled(pool, idc, x, y, angle) ==
    IF Len(pool) > 0
    THEN [bullet |-> [id |-> pool[Len(pool)], x |-> x, y |-> y, angle |-> angle],
          pool   |-> pool,
          idc    |-> idc]
    ELSE [bullet |-> [id |-> idc, x |-> x, y |-> y, angle |-> angle],
          pool   |-> pool,
          idc    |-> idc + 1]

createBullet(pool, idc, x, y, angle) ==
    IF Len(pool) > 0
    THEN [bullet |-> [id |-> pool[Len(pool)], x |-> x, y |-> y, angle |-> angle],
          pool   |-> SubSeq(pool, 1, Len(pool) - 1),
          idc    |-> idc]
    ELSE [bullet |-> [id |-> idc, x |-> x, y |-> y, angle |-> angle],
          pool   |-> pool,
          idc    |-> idc + 1]

\* a faulty variant that C12 must tell from the program: the pool takes all
ReleaseBulletsUnbounded(pool, recycled) ==
    pool \o [k \in 1..Len(recycled) |-> recycled[k].id]

\* the recycle step of animateBullets and checkCollisions
ReleaseBullets(pool, recycled) ==
    LET availableSpace == MAX_BULLETS - Len(pool)
    IN  IF Len(recycled) > 0 /\ availableSpace > 0
        THEN pool \o [k \in 1..Min(Len(recycled), availableSpace) |->
                          recycled[k].id]
        ELSE pool

\* a faulty variant that C23 must tell from the program: the multi-directional
\* effect adds the two side shots only
ShotsSidesOnly(multiDirectional) ==
    IF multiDirectional
    THEN << [dx |-> -8, angle |-> -30], [dx |-> 8, angle |-> 30] >>
    ELSE << [dx |-> 0, angle |-> 0] >>

\* ------------------------------------------------------------ firing
\* the shots of one fire event: offset of x (pixels) and heading (degrees)
Shots(multiDirectional) ==
    IF multiDirectional
    THEN << [dx |-> 0, angle |-> 0], [dx |-> -8, angle |-> -30],
            [dx |-> 8, angle |-> 30] >>
    ELSE << [dx |-> 0, angle |-> 0] >>

RECURSIVE FireShots(_, _, _, _, _, _)
FireShots(shots, bullets, pool, idc, bulletX, bulletY) ==
    IF shots = <<>>
    THEN [bullets |-> bullets, pool |-> pool, idc |-> idc]
    ELSE LET made == createBullet(pool, idc, bulletX + Px(Head(shots).dx),
                                  bulletY, Head(shots).angle)
         IN  FireShots(Tail(shots), Append(bullets, made.bullet), made.pool,
                       made.idc, bulletX, bulletY)

\* a faulty variant that C24 must tell from the program: the boosted rate at
\* all times
FireRateAlwaysBoosted(active) == 100

FireRate(active) == IF active["fireSpeed"] THEN 100 ELSE 200

\* ------------------------------------------------------------ motion
\* sin and cos of the heading times the speed 10; the headings are 0, -30, 30.
\* 10 * cos(30 degrees) = 8.66..., kept as 35 quarter pixels.
BulletSpeedX(angle) ==
    IF angle = 0 THEN 0 ELSE IF angle > 0 THEN Px(5) ELSE -Px(5)

BulletSpeedY(angle) == IF angle = 0 THEN -Px(10) ELSE -35

MoveBullet(bullet) ==
    [bullet EXCEPT !.x = @ + BulletSpeedX(bullet.angle),
                   !.y = @ + BulletSpeedY(bullet.angle)]

BulletKept(bullet) == bullet.y > Px(-20)

\* a faulty variant that C26 must tell from the program: slow motion slows
\* nothing
CurrentFallSpeedNeverSlow(fallSpeed, active) == fallSpeed

CurrentFallSpeed(fallSpeed, active) ==
    IF active["slowMotion"] THEN fallSpeed \div 2 ELSE fallSpeed

\* a faulty variant that C27 must tell from the program: a block is kept
\* however far it has fallen
BlockKeptAnyDepth(block) == block.isBreakable => block.hp > 0

BlockKept(block) ==
    /\ block.y < Px(containerHeight + 50)
    /\ (block.isBreakable => block.hp > 0)

PowerUpKept(powerUp) == powerUp.y < Px(containerHeight + 50)

\* ------------------------------------------------------------ bullet-block pass
\* a faulty variant that C15 must tell from the program: the scan of the
\* blocks does not stop at the first overlap
LastHit(bullet, blocks, j) ==
    LET over == {k \in j..Len(blocks) : BulletHitsBlock(bullet, blocks[k])}
    IN  IF over = {} THEN 0 ELSE CHOOSE k \in over : \A m \in over : m <= k

RECURSIVE FirstHit(_, _, _)
\* index of the first block from j on that the bullet overlaps, 0 if none
FirstHit(bullet, blocks, j) ==
    IF j > Len(blocks) THEN 0
    ELSE IF BulletHitsBlock(bullet, blocks[j]) THEN j
    ELSE FirstHit(bullet, blocks, j + 1)

\* a faulty variant that C16 must tell from the program: every block loses a
\* life when hit
HitBlockAny(block) == [block EXCEPT !.hp = @ - 1, !.isHit = TRUE]

HitBlock(block) ==
    IF block.isBreakable
    THEN [block EXCEPT !.hp = @ - 1, !.isHit = TRUE]
    ELSE [block EXCEPT !.isHit = TRUE]

RECURSIVE CollideFrom(_, _, _, _, _)
\* the scan of checkCollisions from bullet i on: blocks are changed in place,
\* so a later bullet meets the blocks as the earlier ones left them
CollideFrom(bullets, i, blocks, recycle, points) ==
    IF i > Len(bullets)
    THEN [blocks |-> blocks, recycle |-> recycle, points |-> points]
    ELSE LET j == FirstHit(bullets[i], blocks, 1)
         IN  IF j = 0
             THEN CollideFrom(bullets, i + 1, blocks, recycle, points)
             ELSE CollideFrom(bullets, i + 1,
                              [blocks EXCEPT ![j] = HitBlock(blocks[j])],
                              Append(recycle, bullets[i]),
                              points + (IF blocks[j].isBreakable THEN 1 ELSE 0))

BlockSurvives(block) == ~block.isBreakable \/ block.hp > 0

IdsOf(s) == {s[k].id : k \in 1..Len(s)}

\* ------------------------------------------------------------ difficulty
NextBlocksPerWave(prev) == Min(prev + 1, 5)

\* a faulty variant that C7 must tell from the program: a whole pixel a step
NextBlockFallSpeedWhole(prev) == prev + 4

NextBlockFallSpeed(prev) == prev + 2

\* a faulty variant that C8 must tell from the program: the interval grows
NextBlockSpawnRateUp(prev) == Max(prev + 300, 500)

NextBlockSpawnRate(prev) == Max(prev - 300, 500)

PowerUpDuration(type) == IF type = "slowMotion" THEN 5 ELSE 10

CountDown(prev) == [t \in PowerUpTypes |-> Max(0, prev[t] - 1)]

ActiveFrom(timeLeft) == [t \in PowerUpTypes |-> timeLeft[t] > 0]


\* ------------------------------------------------------------ the render's reducers
\* Each hook applies the updates dispatched to it in order.  An updater that
\* was not run eagerly runs now; the setters it calls (lines 519, 524, 529, 557)
\* are applied after the updates already dispatched to their hooks.
\* a faulty variant that C4 must tell from the program: a start keeps the
\* elapsed time
GameTimeStepKeepsTime(t, u) ==
    IF u.op = "tick" THEN (IF u.eager THEN u.n ELSE t + 1) ELSE t

GameTimeStep(t, u) ==
    IF u.op = "reset" THEN 0
    ELSE IF u.op = "tick" THEN (IF u.eager THEN u.n ELSE t + 1)
    ELSE t

RECURSIVE GameTimeAfter(_, _)
GameTimeAfter(q, t) ==
    IF q = <<>> THEN t ELSE GameTimeAfter(Tail(q), GameTimeStep(t, Head(q)))

RECURSIVE LateTicks(_, _)
\* the ticks whose updater runs in the render, each with the time it computes
LateTicks(q, t) ==
    IF q = <<>> THEN <<>>
    ELSE (IF Head(q).op = "tick" /\ ~Head(q).eager
          THEN << [Head(q) EXCEPT !.n = t + 1] >> ELSE <<>>)
         \o LateTicks(Tail(q), GameTimeStep(t, Head(q)))

\* the updates of the three difficulty hooks in the order the render applies them
DifficultyUpdates(q, t) ==
    SelectSeq(q, LAMBDA u : u.op = "reset" \/ (u.op = "tick" /\ u.eager))
        \o LateTicks(q, t)

TickRaisesWave(u) == u.n % 10 = 0 /\ u.cb < 5

TickRaisesSpeed(u) == u.n % 15 = 0

TickLowersRate(u) == u.n % 20 = 0 /\ u.cr > 500

\* a faulty variant that C9 must tell from the program: a spawn every 10 seconds
TickSpawnsPowerUpEveryTen(u) == u.n % 10 = 0

TickSpawnsPowerUp(u) == u.n % 20 = 0

DifficultyStep(d, u) ==
    IF u.op = "reset"
    THEN [wave |-> 1, speed |-> Px(3), rate |-> 2000]
    ELSE [wave  |-> IF TickRaisesWave(u) THEN NextBlocksPerWave(d.wave) ELSE d.wave,
          speed |-> IF TickRaisesSpeed(u) THEN NextBlockFallSpeed(d.speed) ELSE d.speed,
          rate  |-> IF TickLowersRate(u) THEN NextBlockSpawnRate(d.rate) ELSE d.rate]

RECURSIVE DifficultyAfter(_, _)
DifficultyAfter(us, d) ==
    IF us = <<>> THEN d ELSE DifficultyAfter(Tail(us), DifficultyStep(d, Head(us)))

TimeLeftStep(tl, u) ==
    IF u.op = "reset" THEN NoTimeLeft
    ELSE IF u.op = "puTick" THEN (IF u.eager THEN u.tl ELSE CountDown(tl))
    ELSE IF u.op = "activate" THEN [tl EXCEPT ![u.v] = PowerUpDuration(u.v)]
    ELSE tl

RECURSIVE TimeLeftAfter(_, _)
TimeLeftAfter(q, tl) ==
    IF q = <<>> THEN tl ELSE TimeLeftAfter(Tail(q), TimeLeftStep(tl, Head(q)))

RECURSIVE LateCountDowns(_, _)
\* the time left that each countdown updater run in the render computes
LateCountDowns(q, tl) ==
    IF q = <<>> THEN <<>>
    ELSE (IF Head(q).op = "puTick" /\ ~Head(q).eager
          THEN << CountDown(tl) >> ELSE <<>>)
         \o LateCountDowns(Tail(q), TimeLeftStep(tl, Head(q)))

ActiveStep(a, u) ==
    IF u.op = "reset" THEN NoPowerUps
    ELSE IF u.op = "activate" THEN [a EXCEPT ![u.v] = TRUE]
    ELSE IF u.op = "puTick" /\ u.eager THEN ActiveFrom(u.tl)
    ELSE a

RECURSIVE ActiveFirstPass(_, _)
ActiveFirstPass(q, a) ==
    IF q = <<>> THEN a ELSE ActiveFirstPass(Tail(q), ActiveStep(a, Head(q)))

\* setActivePowerUps called by a countdown updater that runs in the render
\* (line 557) is applied when the component is rendered again, after the
\* activations dispatched in the same batch
ActiveAfter(q, a, tl) ==
    LET late == LateCountDowns(q, tl)
    IN  IF late = <<>> THEN ActiveFirstPass(q, a)
        ELSE ActiveFrom(late[Len(late)])

RECURSIVE ActiveRefAfter(_, _, _)
\* line 262: an activation's updater stores what it computes in the ref (one
\* that ran when it was dispatched has done so then)
ActiveRefAfter(q, a, ref) ==
    IF q = <<>> THEN ref
    ELSE ActiveRefAfter(Tail(q), ActiveStep(a, Head(q)),
                        IF Head(q).op = "activate" /\ ~Head(q).eager
                        THEN ActiveStep(a, Head(q)) ELSE ref)

ScoreStep(n, u) ==
    IF u.op = "reset" THEN 0 ELSE IF u.op = "publish" THEN u.n ELSE n

RECURSIVE ScoreAfter(_, _)
ScoreAfter(q, n) ==
    IF q = <<>> THEN n ELSE ScoreAfter(Tail(q), ScoreStep(n, Head(q)))

\* a faulty variant that C3 must tell from the program: the end of a session
\* shows the start screen again
GameStateStepToStartScreen(g, u) ==
    IF u.op = "reset" THEN "playing"
    ELSE IF u.op = "gameState" THEN "notStarted" ELSE g

GameStateStep(g, u) ==
    IF u.op = "reset" THEN "playing" ELSE IF u.op = "gameState" THEN u.v ELSE g

RECURSIVE GameStateAfter(_, _)
GameStateAfter(q, g) ==
    IF q = <<>> THEN g ELSE GameStateAfter(Tail(q), GameStateStep(g, Head(q)))

\* newX and newY of startGame (lines 763-774)
NewPosition ==
    [x |-> Px(containerWidth) \div 2 - Px(24), y |-> Px(containerHeight - 100)]

PositionStep(pos, u) ==
    IF u.op = "reset" THEN NewPosition
    ELSE IF u.op \in {"dragEnd", "position"} THEN [x |-> u.n, y |-> u.cb]
    ELSE pos

RECURSIVE PositionAfter(_, _)
PositionAfter(q, pos) ==
    IF q = <<>> THEN pos ELSE PositionAfter(Tail(q), PositionStep(pos, Head(q)))

IsDraggingStep(d, u) ==
    IF u.op = "dragStart" THEN TRUE ELSE IF u.op = "dragEnd" THEN FALSE ELSE d

RECURSIVE IsDraggingAfter(_, _)
IsDraggingAfter(q, d) ==
    IF q = <<>> THEN d ELSE IsDraggingAfter(Tail(q), IsDraggingStep(d, Head(q)))

KeysStep(k, u) ==
    IF u.op = "keyDown" THEN [k EXCEPT ![u.v] = TRUE]
    ELSE IF u.op = "keyUp" THEN [k EXCEPT ![u.v] = FALSE]
    ELSE k

RECURSIVE KeysAfter(_, _)
KeysAfter(q, k) ==
    IF q = <<>> THEN k ELSE KeysAfter(Tail(q), KeysStep(k, Head(q)))

\* the mute flag after the toggles of q
IsMutedAfter(q, m) ==
    IF CountOps(q, {"mute"}) % 2 = 1 THEN ~m ELSE m

\* ------------------------------------------------------------ spawning
\* what Math.random() may give: the x of a block and of a power-up, a block's
\* durability
BlockXs == {Px(80)}

BlockHps == {1, 2}

PowerUpXs == {Px(80)}

BlockChoices ==
    {[x |-> x, hp |-> hp, isBreakable |-> TRUE] : x \in BlockXs, hp \in BlockHps}
        \cup {[x |-> x, hp |-> 999, isBreakable |-> FALSE] : x \in BlockXs}

PowerUpChoices == {[x |-> x, type |-> t] : x \in PowerUpXs, t \in PowerUpTypes}

NewBlock(choice, id, i) ==
    [id |-> id, x |-> choice.x, y |-> Px(-50 - i * 60), hp |-> choice.hp,
     isHit |-> FALSE, isBreakable |-> choice.isBreakable]

RECURSIVE SpawnWave(_, _, _, _)
\* the loop of spawnBlock from block i of the wave on
SpawnWave(wave, i, blocks, idc) ==
    IF i > Len(wave) THEN [blocks |-> blocks, idc |-> idc]
    ELSE SpawnWave(wave, i + 1, Append(blocks, NewBlock(wave[i], idc, i - 1)),
                   idc + 1)

NewPowerUp(choice, id) ==
    [id |-> id, x |-> choice.x, y |-> Px(-50), type |-> choice.type]

RECURSIVE PowerUpSpawns(_, _, _, _)
\* what k calls of spawnPowerUp in the playing state may leave
PowerUpSpawns(k, powerUps, idc, choices) ==
    IF k = 0 THEN {[powerUps |-> powerUps, idc |-> idc]}
    ELSE UNION {PowerUpSpawns(k - 1, Append(powerUps, NewPowerUp(c, idc)),
                              idc + 1, choices) : c \in choices}

\* ------------------------------------------------------------ animation frames
Callback(cb, tracked) == [cb |-> cb, tracked |-> tracked]

\* a faulty variant that C35 must tell from the program: no request is
\* cancelled
CancelNone(q) == q

\* cancelAnimationFrame of every id held in animationFrameIds, then = {}
CancelTracked(q) == SelectSeq(q, LAMBDA c : ~c.tracked)

\* animationFrameIds.current[cb] = requestAnimationFrame(cb): the id of an
\* earlier request of the same loop is no longer held
RequestFrame(q, cb) ==
    Append([k \in 1..Len(q) |->
               IF q[k].cb = cb THEN Callback(cb, FALSE) ELSE q[k]],
           Callback(cb, TRUE))

\* a faulty variant that C19 must tell from the program: the collision loop
\* is started before the loop that moves the blocks
StartAnimationLoopsCollisionsEarly(q) ==
    RequestFrame(RequestFrame(RequestFrame(RequestFrame(RequestFrame(q,
        "animatePlayer"), "animateBullets"), "checkCollisions"),
        "animateObjects"), "checkPlayerCollisions")

StartAnimationLoops(q) ==
    RequestFrame(RequestFrame(RequestFrame(RequestFrame(RequestFrame(q,
        "animatePlayer"), "animateBullets"), "animateObjects"),
        "checkCollisions"), "checkPlayerCollisions")

\* the player element exists while the rendered state is playing (line 1264)
playerRefCurrent == gameState = "playing"

\* nothing runs between the callbacks of one frame, nor before a click's
\* render and effects are done
Idle == ~syncFlush /\ frame = <<>>

Unarmed == [armed |-> FALSE, bpw |-> 0, rate |-> 0]

\* a faulty variant that C36 must tell from the program: an interval is made
\* with the values of the first render of a session
ArmedAtFirst(bpw, rate) == [armed |-> TRUE, bpw |-> 1, rate |-> 2000]

\* an interval made by an effect of the render with these values
Armed(bpw, rate) == [armed |-> TRUE, bpw |-> bpw, rate |-> rate]

\* ------------------------------------------------------------ initial state
Init ==
    /\ gameStateRef = "notStarted"
    /\ positionRef = [x |-> 0, y |-> 0]
    /\ bulletsRef = <<>>
    /\ blocksRef = <<>>
    /\ powerUpsRef = <<>>
    /\ bulletPoolRef = <<>>
    /\ bulletIdRef = 0
    /\ blockIdRef = 0
    /\ powerUpIdRef = 0
    /\ scoreRef = 0
    /\ finalScoreRef = 0
    /\ blockFallSpeedRef = Px(3)
    /\ activePowerUpsRef = NoPowerUps
    /\ needsRenderRef = FALSE
    /\ sinceFire = 200
    /\ gameState = "notStarted"
    /\ gameTime = 0
    /\ blockSpawnRate = 2000
    /\ blockFallSpeed = Px(3)
    /\ blocksPerWave = 1
    /\ activePowerUps = NoPowerUps
    /\ powerUpTimeLeft = NoTimeLeft
    /\ score = 0
    /\ position = [x |-> 0, y |-> 0]
    /\ isDragging = FALSE
    /\ audioLoaded = FALSE
    /\ keys = NoKeys
    /\ isMuted = FALSE
    /\ startSees = [keys |-> NoKeys, isDragging |-> FALSE, isMuted |-> FALSE]
    /\ loopSees = [keys |-> NoKeys, isDragging |-> FALSE, isMuted |-> FALSE]
    /\ container = [width |-> 200, height |-> 100]
    /\ cue = NoCue
    /\ pending = <<>>
    /\ dirty = {}
    /\ syncFlush = FALSE
    /\ gameTimerInterval = Unarmed
    /\ powerUpTimerInterval = FALSE
    /\ firingInterval = FALSE
    /\ blockInterval = Unarmed
    /\ hitTimeouts = 0
    /\ rafQueue = << Callback("updateRender", FALSE) >>
    /\ frame = <<>>
    /\ lastOp = "mount"


\* ------------------------------------------------------------ start and restart
\* startGame (lines 755-841), the handler of the Start Game and Play Again
\* buttons, which exist while the rendered state is notStarted or gameOver.
\* A click is handled when React has no work left from earlier events; the
\* render and the effects it causes run before anything else.
StartGame ==
    /\ Idle
    /\ pending = <<>>
    /\ dirty = {}
    /\ gameState \in {"notStarted", "gameOver"}
    /\ rafQueue' = StartAnimationLoops(CancelTracked(rafQueue))
    /\ positionRef' = NewPosition
    /\ gameStateRef' = "playing"
    /\ bulletsRef' = <<>>
    /\ blocksRef' = <<>>
    /\ powerUpsRef' = <<>>
    /\ scoreRef' = 0
    /\ blockFallSpeedRef' = Px(3)
    /\ activePowerUpsRef' = NoPowerUps
    /\ bulletIdRef' = 0
    /\ blockIdRef' = 0
    /\ powerUpIdRef' = 0
    /\ bulletPoolRef' = <<>>
    /\ pending' = << ResetUpdate >>
    /\ syncFlush' = TRUE
    /\ loopSees' = startSees
    /\ \E c \in Attempts("gameStart", startSees.isMuted) : cue' = CueAfter(c)
    /\ lastOp' = "startGame"
    /\ UNCHANGED <<finalScoreRef, needsRenderRef, sinceFire, stateVars, startSees,
                   container, dirty, timerVars, hitTimeouts, frame>>

\* ------------------------------------------------------------ one animation frame
\* the browser runs the callbacks requested for a frame in the order of the
\* requests; callbacks requested meanwhile run in the next frame.  It runs no
\* frame while the page is not shown.
FrameBegin(shown) ==
    /\ Idle
    /\ shown
    /\ rafQueue # <<>>
    /\ frame' = rafQueue
    /\ rafQueue' = <<>>
    /\ UNCHANGED <<refVars, stateVars, closureVars, container, cue, reactVars, timerVars, hitTimeouts, lastOp>>

\* updateRender (lines 468-490)
UpdateRender ==
    /\ frame # <<>>
    /\ Head(frame).cb = "updateRender"
    /\ IF needsRenderRef /\ gameStateRef = "playing"
       THEN /\ pending' = Publish(pending, scoreRef)
            /\ needsRenderRef' = FALSE
       ELSE UNCHANGED <<pending, needsRenderRef>>
    /\ rafQueue' = Append(rafQueue, Callback("updateRender", FALSE))
    /\ frame' = Tail(frame)
    /\ lastOp' = "updateRender"
    /\ UNCHANGED <<gameStateRef, positionRef, entityVars, finalScoreRef,
                   blockFallSpeedRef, activePowerUpsRef, sinceFire, stateVars, closureVars, container, cue,
                   dirty, syncFlush, timerVars, hitTimeouts>>

\* the keys and the drag flag that the running loops see are those of the
\* render in which the startGame that started them was made (dependencies,
\* lines 841 and 1146)
loopKeys == loopSees.keys

loopIsDragging == loopSees.isDragging

\* the new position that animatePlayer computes (lines 856-885)
MovedPosition(pos, held) ==
    LET speed == Px(5)
        x1 == pos.x - (IF held.left THEN speed ELSE 0)
                    + (IF held.right THEN speed ELSE 0)
        y1 == pos.y - (IF held.up THEN speed ELSE 0)
                    + (IF held.down THEN speed ELSE 0)
    IN  [x |-> Max(0, Min(x1, Px(containerWidth - playerWidth))),
         y |-> Max(0, Min(y1, Px(containerHeight - playerHeight)))]

\* animatePlayer (lines 846-894)
AnimatePlayer ==
    /\ frame # <<>>
    /\ Head(frame).cb = "animatePlayer"
    /\ frame' = Tail(frame)
    /\ lastOp' = "animatePlayer"
    /\ IF gameStateRef = "playing" /\ playerRefCurrent
       THEN /\ rafQueue' = RequestFrame(rafQueue, "animatePlayer")
            /\ IF (loopKeys.up \/ loopKeys.down \/ loopKeys.left
                       \/ loopKeys.right) /\ ~loopIsDragging
               THEN /\ positionRef' = MovedPosition(positionRef, loopKeys)
                    /\ pending' = Append(pending,
                                         PositionUpdate(positionRef'))
               ELSE UNCHANGED <<positionRef, pending>>
       ELSE UNCHANGED <<rafQueue, positionRef, pending>>
    /\ UNCHANGED <<gameStateRef, entityVars, finalScoreRef, blockFallSpeedRef,
                   activePowerUpsRef, needsRenderRef, sinceFire, stateVars,
                   closureVars, container, cue, dirty, syncFlush, timerVars,
                   hitTimeouts>>

\* animateBullets (lines 898-937)
AnimateBullets ==
    /\ frame # <<>>
    /\ Head(frame).cb = "animateBullets"
    /\ frame' = Tail(frame)
    /\ lastOp' = "animateBullets"
    /\ IF gameStateRef = "playing"
       THEN LET moved == [k \in 1..Len(bulletsRef) |-> MoveBullet(bulletsRef[k])]
            IN  /\ bulletsRef' = SelectSeq(moved, BulletKept)
                /\ bulletPoolRef' =
                       ReleaseBullets(bulletPoolRef,
                                      SelectSeq(moved, LAMBDA b : ~BulletKept(b)))
                /\ needsRenderRef' = TRUE
                /\ rafQueue' = RequestFrame(rafQueue, "animateBullets")
       ELSE UNCHANGED <<bulletsRef, bulletPoolRef, needsRenderRef, rafQueue>>
    /\ UNCHANGED <<gameStateRef, positionRef, blocksRef, powerUpsRef, bulletIdRef,
                   blockIdRef, powerUpIdRef, scoreRef, finalScoreRef,
                   blockFallSpeedRef, activePowerUpsRef, sinceFire, stateVars, closureVars, container, cue,
                   reactVars, timerVars, hitTimeouts>>

\* animateObjects (lines 940-975)
AnimateObjects ==
    /\ frame # <<>>
    /\ Head(frame).cb = "animateObjects"
    /\ frame' = Tail(frame)
    /\ lastOp' = "animateObjects"
    /\ IF gameStateRef = "playing"
       THEN LET currentFallSpeed ==
                    CurrentFallSpeed(blockFallSpeedRef, activePowerUpsRef)
                fallen == [k \in 1..Len(blocksRef) |->
                              [blocksRef[k] EXCEPT !.y = @ + currentFallSpeed]]
                sunk == [k \in 1..Len(powerUpsRef) |->
                            [powerUpsRef[k] EXCEPT !.y = @ + Px(2)]]
            IN  /\ blocksRef' = SelectSeq(fallen, BlockKept)
                /\ powerUpsRef' = SelectSeq(sunk, PowerUpKept)
                /\ needsRenderRef' = TRUE
                /\ rafQueue' = RequestFrame(rafQueue, "animateObjects")
       ELSE UNCHANGED <<blocksRef, powerUpsRef, needsRenderRef, rafQueue>>
    /\ UNCHANGED <<gameStateRef, positionRef, bulletsRef, bulletPoolRef,
                   bulletIdRef, blockIdRef, powerUpIdRef, scoreRef, finalScoreRef,
                   blockFallSpeedRef, activePowerUpsRef, sinceFire, stateVars, closureVars, container, cue,
                   reactVars, timerVars, hitTimeouts>>


\* the hit cues of a pass (line 1029) are delivered or fail together; a pass
\* without a hit attempts none
HitCues(bullets, blocks) ==
    IF \E i \in 1..Len(bullets) : FirstHit(bullets[i], blocks, 1) # 0
    THEN Attempts("hit", loopSees.isMuted)
    ELSE {NoCue}

\* what a pass of checkCollisions over live bullets and blocks leaves (lines
\* 996-1070).  A cue that threw would end the pass at the first hit, before
\* the block is changed (line 1032) and the loop requested again (line 1070).
CollisionPass(c) ==
    LET scan == CollideFrom(bulletsRef, 1, blocksRef, <<>>, 0)
        hitDetected == scan.recycle # <<>>
    IN  IF hitDetected /\ playSound(c) = "thrown"
        THEN [bullets |-> bulletsRef, pool |-> bulletPoolRef, score |-> scoreRef,
              blocks |-> blocksRef, needsRender |-> needsRenderRef,
              timeouts |-> hitTimeouts, raf |-> rafQueue]
        ELSE [bullets |-> SelectSeq(bulletsRef,
                              LAMBDA b : b.id \notin IdsOf(scan.recycle)),
              pool |-> ReleaseBullets(bulletPoolRef, scan.recycle),
              score |-> scoreRef + scan.points,
              blocks |-> IF hitDetected
                         THEN SelectSeq(scan.blocks, BlockSurvives)
                         ELSE scan.blocks,
              needsRender |-> (needsRenderRef \/ hitDetected),
              timeouts |-> IF hitDetected
                           THEN Min(hitTimeouts + 1, MaxHitTimeouts)
                           ELSE hitTimeouts,
              raf |-> RequestFrame(rafQueue, "checkCollisions")]

\* checkCollisions (lines 979-1071)
CheckCollisions ==
    /\ frame # <<>>
    /\ Head(frame).cb = "checkCollisions"
    /\ frame' = Tail(frame)
    /\ lastOp' = "checkCollisions"
    /\ IF gameStateRef # "playing"
       THEN UNCHANGED <<bulletsRef, blocksRef, bulletPoolRef, scoreRef,
                        needsRenderRef, hitTimeouts, rafQueue, cue>>
       ELSE IF Len(bulletsRef) = 0 \/ Len(blocksRef) = 0
       THEN /\ rafQueue' = RequestFrame(rafQueue, "checkCollisions")
            /\ UNCHANGED <<bulletsRef, blocksRef, bulletPoolRef, scoreRef,
                           needsRenderRef, hitTimeouts, cue>>
       ELSE \E c \in HitCues(bulletsRef, blocksRef) :
                LET pass == CollisionPass(c)
                IN  /\ cue' = CueAfter(c)
                    /\ bulletsRef' = pass.bullets
                    /\ bulletPoolRef' = pass.pool
                    /\ scoreRef' = pass.score
                    /\ blocksRef' = pass.blocks
                    /\ needsRenderRef' = pass.needsRender
                    /\ hitTimeouts' = pass.timeouts
                    /\ rafQueue' = pass.raf
    /\ UNCHANGED <<gameStateRef, positionRef, powerUpsRef, bulletIdRef,
                   blockIdRef, powerUpIdRef, finalScoreRef, blockFallSpeedRef,
                   activePowerUpsRef, sinceFire, stateVars, closureVars, container, reactVars,
                   timerVars>>

\* a faulty variant that C32 must tell from the program: the deferred action
\* leaves the flag
KeepHit(block) == block

\* block.isHit = false (line 1064)
ResetHit(block) == [block EXCEPT !.isHit = FALSE]

\* the deferred action of checkCollisions (lines 1062-1067)
ClearHit ==
    /\ Idle
    /\ hitTimeouts > 0
    /\ hitTimeouts' = hitTimeouts - 1
    /\ blocksRef' = [k \in 1..Len(blocksRef) |-> ResetHit(blocksRef[k])]
    /\ needsRenderRef' = TRUE
    /\ lastOp' = "clearHit"
    /\ UNCHANGED <<gameStateRef, positionRef, bulletsRef, powerUpsRef,
                   bulletPoolRef, bulletIdRef, blockIdRef, powerUpIdRef,
                   scoreRef, finalScoreRef, blockFallSpeedRef,
                   activePowerUpsRef, sinceFire, stateVars, closureVars, container, cue, reactVars,
                   timerVars, rafVars>>

\* a faulty variant that C34 must tell from the program: the blocks are not
\* looked at
PlayerHitNever(pos, blocks) == FALSE

\* the player overlaps a live block
PlayerHit(pos, blocks) ==
    \E k \in 1..Len(blocks) : PlayerHitsBlock(pos, blocks[k])

\* checkPlayerCollisions (lines 1074-1138) with triggerGameOver (lines 274-297)
\* and activatePowerUp (lines 255-271)
CheckPlayerCollisions ==
    /\ frame # <<>>
    /\ Head(frame).cb = "checkPlayerCollisions"
    /\ lastOp' = "checkPlayerCollisions"
    /\ IF ~(gameStateRef = "playing" /\ playerRefCurrent)
       THEN /\ frame' = Tail(frame)
            /\ UNCHANGED <<gameStateRef, powerUpsRef, activePowerUpsRef,
                           needsRenderRef, pending, rafQueue, cue>>
       ELSE IF PlayerHit(positionRef, blocksRef)
       THEN /\ rafQueue' = CancelTracked(rafQueue)
            /\ frame' = CancelTracked(Tail(frame))
            /\ pending' = Append(pending, SetGameStateUpdate("gameOver"))
            /\ gameStateRef' = "gameOver"
            /\ \E c \in Attempts("gameOver", loopSees.isMuted) :
                   cue' = CueAfter(c)
            /\ UNCHANGED <<powerUpsRef, activePowerUpsRef, needsRenderRef>>
       ELSE LET collected ==
                    SelectSeq(powerUpsRef,
                              LAMBDA p : PlayerHitsPowerUp(positionRef, p))
            IN  \E eager \in EagerChoices(pending) :
                    /\ pending' = pending \o
                           [k \in 1..Len(collected) |->
                               ActivateUpdate(collected[k].type,
                                              eager /\ k = 1)]
                    /\ activePowerUpsRef' =
                           IF eager /\ collected # <<>>
                           THEN [activePowerUps EXCEPT ![collected[1].type] = TRUE]
                           ELSE activePowerUpsRef
                    /\ powerUpsRef' =
                           SelectSeq(powerUpsRef,
                                     LAMBDA p : p.id \notin IdsOf(collected))
                    /\ needsRenderRef' = (needsRenderRef \/ collected # <<>>)
                    /\ rafQueue' = RequestFrame(rafQueue, "checkPlayerCollisions")
                    /\ frame' = Tail(frame)
                    /\ UNCHANGED <<gameStateRef, cue>>
    /\ UNCHANGED <<positionRef, bulletsRef, blocksRef, bulletPoolRef,
                   bulletIdRef, blockIdRef, powerUpIdRef, scoreRef,
                   finalScoreRef, blockFallSpeedRef, sinceFire, stateVars, closureVars, container,
                   dirty, syncFlush, timerVars, hitTimeouts>>


\* ------------------------------------------------------------ interval timers
\* timer updates dispatched and not yet rendered
TimerUpdates(q) == CountOps(q, {"tick", "puTick"})

\* spawnPowerUp (lines 229-252) called k times: what it may leave
SpawnPowerUp(k, choices) ==
    IF gameStateRef = "playing" /\ k > 0
    THEN {[powerUps |-> r.powerUps, idc |-> r.idc, needsRender |-> TRUE]
              : r \in PowerUpSpawns(k, powerUpsRef, powerUpIdRef, choices)}
    ELSE {[powerUps |-> powerUpsRef, idc |-> powerUpIdRef,
           needsRender |-> needsRenderRef]}

\* the callback of the game timer (lines 513-539), at most limit ticks a
\* session, a power-up it spawns being one of choices
GameTimerTick(limit, choices) ==
    /\ Idle
    /\ gameTimerInterval.armed
    /\ TimerUpdates(pending) < MaxPending
    /\ GameTimeAfter(pending, gameTime) < limit
    /\ \E eager \in EagerChoices(pending) :
           LET newTime == gameTime + 1
               update == TickUpdate(eager, IF eager THEN newTime ELSE 0,
                                    gameTimerInterval.bpw, gameTimerInterval.rate)
           IN  /\ pending' = Append(pending, update)
               /\ \E r \in SpawnPowerUp(IF eager /\ TickSpawnsPowerUp(update)
                                        THEN 1 ELSE 0, choices) :
                      /\ powerUpsRef' = r.powerUps
                      /\ powerUpIdRef' = r.idc
                      /\ needsRenderRef' = r.needsRender
    /\ lastOp' = "gameTimer"
    /\ UNCHANGED <<gameStateRef, positionRef, bulletsRef, blocksRef,
                   bulletPoolRef, bulletIdRef, blockIdRef, scoreRef,
                   finalScoreRef, blockFallSpeedRef, activePowerUpsRef,
                   sinceFire, stateVars, closureVars, container, cue, dirty, syncFlush, timerVars,
                   hitTimeouts, rafVars>>

\* the callback of the power-up timer (lines 548-565)
PowerUpTimerTick ==
    /\ Idle
    /\ powerUpTimerInterval
    /\ TimerUpdates(pending) < MaxPending
    /\ \E eager \in EagerChoices(pending) :
           pending' = Append(pending,
                             PowerUpTickUpdate(eager,
                                 IF eager THEN CountDown(powerUpTimeLeft)
                                 ELSE NoTimeLeft))
    /\ lastOp' = "powerUpTimer"
    /\ UNCHANGED <<refVars, stateVars, closureVars, container, cue, dirty, syncFlush, timerVars, hitTimeouts,
                   rafVars>>

\* a faulty variant that C6 must tell from the program: the fire poll does
\* not look at the session state
canFireAnyState == playerRefCurrent

\* the guard of fireBullet (line 641)
canFire == playerRefCurrent /\ gameStateRef = "playing"

\* playFireSound (lines 299-307): a fire cue is attempted if the last one is
\* more than 100 ms old, which it is at the fire rate of 200 ms and may not
\* be at that of 100 ms
playFireSound ==
    IF FireRate(activePowerUpsRef) > 100 THEN Attempts("fire", isMuted)
    ELSE Attempts("fire", isMuted) \cup {NoCue}

\* the end of fireBullet (lines 668-669): the cue, then the mark for
\* updateRender, which a throwing cue would leave out
NeedsRenderAfterFire(c) ==
    IF playSound(c) = "thrown" THEN needsRenderRef ELSE TRUE

\* the callback of the firing interval: fireBullet (lines 640-671).  sinceFire
\* is now - lastFireTimeRef.current in milliseconds, counted in polls of 50 up
\* to the largest fire rate.  A shot that would leave more than limit bullets
\* alive is not delivered.
FirePoll(limit) ==
    /\ Idle
    /\ firingInterval
    /\ lastOp' = "fireBullet"
    /\ LET elapsed == Min(sinceFire + 50, 200)
           shots == Shots(activePowerUpsRef["multiDirectional"])
           fired == FireShots(shots, bulletsRef, bulletPoolRef, bulletIdRef,
                              positionRef.x + Px(playerWidth) \div 2 - Px(4),
                              positionRef.y - Px(8))
       IN  IF canFire /\ elapsed >= FireRate(activePowerUpsRef)
           THEN /\ Len(bulletsRef) + Len(shots) <= limit
                /\ sinceFire' = 0
                /\ bulletsRef' = fired.bullets
                /\ bulletPoolRef' = fired.pool
                /\ bulletIdRef' = fired.idc
                /\ \E c \in playFireSound :
                       /\ cue' = CueAfter(c)
                       /\ needsRenderRef' = NeedsRenderAfterFire(c)
           ELSE /\ sinceFire' = elapsed
                /\ UNCHANGED <<bulletsRef, bulletPoolRef, bulletIdRef,
                               needsRenderRef, cue>>
    /\ UNCHANGED <<gameStateRef, positionRef, blocksRef, powerUpsRef, blockIdRef,
                   powerUpIdRef, scoreRef, finalScoreRef, blockFallSpeedRef,
                   activePowerUpsRef, stateVars, closureVars, container, reactVars, timerVars,
                   hitTimeouts, rafVars>>

\* the callback of the block interval: spawnBlock (lines 685-716), with the
\* wave size of the render that made it, every block being one of choices; the
\* wave is delivered if it keeps the session withinBounds
SpawnBlockTick(choices, withinBounds) ==
    /\ Idle
    /\ blockInterval.armed
    /\ lastOp' = "spawnBlock"
    /\ IF gameStateRef = "playing"
       THEN /\ withinBounds
            /\ \E wave \in [1..blockInterval.bpw -> choices] :
                   LET made == SpawnWave(wave, 1, blocksRef, blockIdRef)
                   IN  /\ blocksRef' = made.blocks
                       /\ blockIdRef' = made.idc
            /\ needsRenderRef' = TRUE
       ELSE UNCHANGED <<blocksRef, blockIdRef, needsRenderRef>>
    /\ UNCHANGED <<gameStateRef, positionRef, bulletsRef, powerUpsRef,
                   bulletPoolRef, bulletIdRef, powerUpIdRef, scoreRef,
                   finalScoreRef, blockFallSpeedRef, activePowerUpsRef,
                   sinceFire, stateVars, closureVars, container, cue, reactVars, timerVars, hitTimeouts,
                   rafVars>>


\* ------------------------------------------------------------ render and effects
HasOp(q, ops) == \E k \in 1..Len(q) : q[k].op \in ops

\* the state that the render gives a new identity or value, by hook
Changed(q, gs, d, sc) ==
    (IF gs # gameState THEN {"gameState"} ELSE {})
        \cup (IF d.wave # blocksPerWave THEN {"blocksPerWave"} ELSE {})
        \cup (IF d.speed # blockFallSpeed THEN {"blockFallSpeed"} ELSE {})
        \cup (IF d.rate # blockSpawnRate THEN {"blockSpawnRate"} ELSE {})
        \cup (IF sc # score THEN {"score"} ELSE {})
        \cup (IF HasOp(q, {"reset"}) \/ PositionAfter(q, position) # position
              THEN {"position"} ELSE {})
        \cup (IF HasOp(q, {"reset", "activate", "puTick"})
              THEN {"activePowerUps"} ELSE {})

\* useCallback makes startGame anew in a render that changes playSound or
\* audioLoaded (line 841), playSound being made anew when isMuted or
\* audioLoaded changes (line 209)
StartGameRemade(q) ==
    \/ IsMutedAfter(q, isMuted) # isMuted
    \/ ~audioLoaded /\ HasOp(q, {"audioLoaded"})

\* React renders the component: every hook applies the updates dispatched to
\* it (lines 79-143); updaters that did not run when dispatched run here, with
\* what they do besides computing the state (lines 262, 519-534, 557)
Render(choices) ==
    /\ frame = <<>>
    /\ pending # <<>>
    /\ dirty = {}
    /\ LET gs == GameStateAfter(pending, gameState)
           d == DifficultyAfter(DifficultyUpdates(pending, gameTime),
                                [wave |-> blocksPerWave, speed |-> blockFallSpeed,
                                 rate |-> blockSpawnRate])
           sc == ScoreAfter(pending, score)
           changed == Changed(pending, gs, d, sc)
           spawns == Len(SelectSeq(LateTicks(pending, gameTime),
                                   TickSpawnsPowerUp))
       IN  /\ gameState' = gs
           /\ gameTime' = GameTimeAfter(pending, gameTime)
           /\ blocksPerWave' = d.wave
           /\ blockFallSpeed' = d.speed
           /\ blockSpawnRate' = d.rate
           /\ activePowerUps' =
                  ActiveAfter(pending, activePowerUps, powerUpTimeLeft)
           /\ powerUpTimeLeft' = TimeLeftAfter(pending, powerUpTimeLeft)
           /\ score' = sc
           /\ position' = PositionAfter(pending, position)
           /\ isDragging' = IsDraggingAfter(pending, isDragging)
           /\ audioLoaded' = (audioLoaded \/ HasOp(pending, {"audioLoaded"}))
           /\ keys' = KeysAfter(pending, keys)
           /\ isMuted' = IsMutedAfter(pending, isMuted)
           /\ startSees' =
                  IF StartGameRemade(pending)
                  THEN [keys |-> KeysAfter(pending, keys),
                        isDragging |-> IsDraggingAfter(pending, isDragging),
                        isMuted |-> IsMutedAfter(pending, isMuted)]
                  ELSE startSees
           /\ activePowerUpsRef' =
                  ActiveRefAfter(pending, activePowerUps, activePowerUpsRef)
           /\ \E r \in SpawnPowerUp(spawns, choices) :
                  /\ powerUpsRef' = r.powerUps
                  /\ powerUpIdRef' = r.idc
                  /\ needsRenderRef' = r.needsRender
           /\ dirty' = changed
           /\ syncFlush' = (syncFlush /\ changed # {})
    /\ pending' = <<>>
    /\ lastOp' = "render"
    /\ UNCHANGED <<gameStateRef, positionRef, bulletsRef, blocksRef,
                   bulletPoolRef, bulletIdRef, blockIdRef, scoreRef,
                   finalScoreRef, blockFallSpeedRef, sinceFire, timerVars,
                   hitTimeouts, rafVars, loopSees, container, cue>>

\* the effects of the last render whose dependencies changed, each the cleanup
\* of its earlier run and then its body: lines 493-507 (refs follow the
\* state), 510-542 (game timer), 545-568 (power-up timer), 571-575 (final
\* score), 593-601 (frames cancelled outside play), 674-682 (firing), 719-727
\* (block spawning)
FlushEffects ==
    /\ frame = <<>>
    /\ dirty # {}
    /\ gameStateRef' = IF "gameState" \in dirty THEN gameState ELSE gameStateRef
    /\ positionRef' = IF "position" \in dirty THEN position ELSE positionRef
    /\ blockFallSpeedRef' = IF "blockFallSpeed" \in dirty THEN blockFallSpeed
                            ELSE blockFallSpeedRef
    /\ activePowerUpsRef' = IF "activePowerUps" \in dirty THEN activePowerUps
                            ELSE activePowerUpsRef
    /\ gameTimerInterval' =
           IF dirty \cap {"gameState", "blocksPerWave", "blockSpawnRate"} # {}
           THEN (IF gameState = "playing"
                 THEN Armed(blocksPerWave, blockSpawnRate) ELSE Unarmed)
           ELSE gameTimerInterval
    /\ powerUpTimerInterval' =
           IF "gameState" \in dirty THEN gameState = "playing"
           ELSE powerUpTimerInterval
    /\ finalScoreRef' =
           IF dirty \cap {"gameState", "score"} # {} /\ gameState = "gameOver"
           THEN score ELSE finalScoreRef
    /\ rafQueue' = IF "gameState" \in dirty /\ gameState # "playing"
                   THEN CancelTracked(rafQueue) ELSE rafQueue
    /\ firingInterval' =
           IF "gameState" \in dirty THEN gameState = "playing"
           ELSE firingInterval
    /\ blockInterval' =
           IF dirty \cap {"gameState", "blocksPerWave", "blockSpawnRate"} # {}
           THEN (IF gameState = "playing"
                 THEN Armed(blocksPerWave, blockSpawnRate) ELSE Unarmed)
           ELSE blockInterval
    /\ dirty' = {}
    /\ syncFlush' = FALSE
    /\ lastOp' = "effects"
    /\ UNCHANGED <<entityVars, needsRenderRef, sinceFire, stateVars, closureVars, container, cue, pending,
                   hitTimeouts, frame>>

\* ------------------------------------------------------------ audio
\* the effect that makes the audio elements (lines 402-436), which runs after
\* the first render, where the browser can make them
InitAudio ==
    /\ Idle
    /\ lastOp = "mount"
    /\ pending' = Append(pending, AudioLoadedUpdate)
    /\ lastOp' = "initAudio"
    /\ UNCHANGED <<refVars, stateVars, closureVars, container, cue, dirty, syncFlush,
                   timerVars, hitTimeouts, rafVars>>

\* toggleMute (lines 309-320), the handler of the mute button
ToggleMute ==
    /\ Idle
    /\ pending = <<>>
    /\ dirty = {}
    /\ pending' = << MuteUpdate >>
    /\ syncFlush' = TRUE
    /\ lastOp' = "toggleMute"
    /\ UNCHANGED <<refVars, stateVars, closureVars, container, cue, dirty,
                   timerVars, hitTimeouts, rafVars>>

\* ------------------------------------------------------------ keyboard
\* handleKeyDown (lines 733-737), a listener that the effect of lines
\* 730-752 keeps on the window while the rendered state is playing: one of
\* keyset goes down
KeyDown(keyset) ==
    /\ Idle
    /\ pending = <<>>
    /\ dirty = {}
    /\ gameState = "playing"
    /\ \E key \in keyset : pending' = << KeyUpdate(key, TRUE) >>
    /\ syncFlush' = TRUE
    /\ lastOp' = "keyDown"
    /\ UNCHANGED <<refVars, stateVars, closureVars, container, cue, dirty,
                   timerVars, hitTimeouts, rafVars>>

\* handleKeyUp (lines 739-743), its like: one of keyset goes up
KeyUp(keyset) ==
    /\ Idle
    /\ pending = <<>>
    /\ dirty = {}
    /\ gameState = "playing"
    /\ \E key \in keyset : pending' = << KeyUpdate(key, FALSE) >>
    /\ syncFlush' = TRUE
    /\ lastOp' = "keyUp"
    /\ UNCHANGED <<refVars, stateVars, closureVars, container, cue, dirty,
                   timerVars, hitTimeouts, rafVars>>

\* ------------------------------------------------------------ dragging
\* handleTouchStart (lines 343-360), the handler of touchstart and mousedown
\* on the container.  As for a click, React has no work left from earlier
\* events, and the render runs before anything else.
TouchStart ==
    /\ Idle
    /\ pending = <<>>
    /\ dirty = {}
    /\ gameState = "playing"
    /\ pending' = << DragStartUpdate >>
    /\ syncFlush' = TRUE
    /\ lastOp' = "touchStart"
    /\ UNCHANGED <<refVars, stateVars, closureVars, container, cue, dirty, timerVars, hitTimeouts,
                   rafVars>>

\* the clamp of handleTouchMove (lines 376-383)
DraggedPosition(newX, newY) ==
    [x |-> Max(0, Min(Px(containerWidth - playerWidth), newX)),
     y |-> Max(0, Min(Px(containerHeight - playerHeight), newY))]

\* handleTouchMove (lines 362-392), the handler of touchmove and mousemove:
\* the pointer asks for one of targets, the pointer's place less the offset
\* taken when the drag began
TouchMove(targets) ==
    /\ Idle
    /\ isDragging
    /\ gameState = "playing"
    /\ playerRefCurrent
    /\ \E t \in targets : positionRef' = DraggedPosition(t.x, t.y)
    /\ lastOp' = "touchMove"
    /\ UNCHANGED <<gameStateRef, entityVars, finalScoreRef, blockFallSpeedRef,
                   activePowerUpsRef, needsRenderRef, sinceFire, stateVars, closureVars,
                   container, cue, reactVars, timerVars, hitTimeouts, rafVars>>

\* handleTouchEnd (lines 394-400), the handler of touchend, mouseup and
\* mouseleave
TouchEnd ==
    /\ Idle
    /\ pending = <<>>
    /\ dirty = {}
    /\ isDragging
    /\ pending' = << DragEndUpdate(positionRef) >>
    /\ syncFlush' = TRUE
    /\ lastOp' = "touchEnd"
    /\ UNCHANGED <<refVars, stateVars, closureVars, container, cue, dirty, timerVars, hitTimeouts,
                   rafVars>>

\* the window, which the container fills (line 1207), gets one of sizes; the
\* program has no handler for it
ResizeWindow(sizes) ==
    /\ Idle
    /\ \E size \in sizes : container' = size
    /\ lastOp' = "resize"
    /\ UNCHANGED <<cue, refVars, stateVars, closureVars, reactVars, timerVars, hitTimeouts,
                   rafVars>>

\* ------------------------------------------------------------ specifications
\* Spec: a session with bullets and breakable blocks.  It ends before a
\* power-up spawns, so the power-up timer, whose updates change nothing then,
\* is left out.
Next ==
    \/ StartGame
    \/ FrameBegin(TRUE)
    \/ UpdateRender
    \/ AnimatePlayer
    \/ AnimateBullets
    \/ AnimateObjects
    \/ CheckCollisions
    \/ CheckPlayerCollisions
    \/ ClearHit
    \/ GameTimerTick(MaxTime, PowerUpChoices)
    \/ FirePoll(MaxBullets)
    \/ SpawnBlockTick(BlockChoices,
                      blockIdRef + blockInterval.bpw <= MaxSpawned)
    \/ Render(PowerUpChoices)
    \/ FlushEffects

Spec == Init /\ [][Next]_vars

\* the browser runs a frame whenever one was requested and the page is shown,
\* and every callback of a frame that began
Frames ==
    \/ FrameBegin(TRUE)
    \/ UpdateRender
    \/ AnimatePlayer
    \/ AnimateBullets
    \/ AnimateObjects
    \/ CheckCollisions
    \/ CheckPlayerCollisions

\* FairSpec: the sessions of Spec on a page that stays shown, where React
\* does the renders and effects it has scheduled.  Timers and the user may
\* stop at any time.
FairSpec ==
    /\ Spec
    /\ WF_vars(Frames)
    /\ WF_vars(Render(PowerUpChoices))
    /\ WF_vars(FlushEffects)

\* HitFairSpec: the sessions of FairSpec in which a timeout that was set
\* runs: the browser runs a timer that is due between two frames, however
\* many frames follow each other
HitFairSpec ==
    /\ FairSpec
    /\ SF_vars(ClearHit)

\* SoundSpec: the sessions of Spec in a browser that makes the audio
\* elements, and then plays a cue or refuses it
SoundNext ==
    \/ InitAudio
    \/ StartGame
    \/ FrameBegin(TRUE)
    \/ UpdateRender
    \/ AnimatePlayer
    \/ AnimateBullets
    \/ AnimateObjects
    \/ CheckCollisions
    \/ CheckPlayerCollisions
    \/ ClearHit
    \/ GameTimerTick(MaxTime, PowerUpChoices)
    \/ FirePoll(MaxBullets)
    \/ SpawnBlockTick(BlockChoices,
                      blockIdRef + blockInterval.bpw <= MaxSpawned)
    \/ Render(PowerUpChoices)
    \/ FlushEffects

SoundSpec == Init /\ [][SoundNext]_vars

\* the one block of the sessions that run long: unbreakable, so that it ends
\* the session when it reaches the player
Unbreakable == {c \in BlockChoices : ~c.isBreakable}

\* PowerUpSpec: sessions long enough for a power-up to spawn, to be collected
\* and to run down.  Nothing is fired.
PowerUpNext ==
    \/ StartGame
    \/ FrameBegin(TRUE)
    \/ UpdateRender
    \/ AnimatePlayer
    \/ AnimateBullets
    \/ AnimateObjects
    \/ CheckCollisions
    \/ CheckPlayerCollisions
    \/ GameTimerTick(MaxSeconds, PowerUpChoices)
    \/ PowerUpTimerTick
    \/ SpawnBlockTick(Unbreakable, blockIdRef = 0)
    \/ Render(PowerUpChoices)
    \/ FlushEffects

PowerUpSpec == Init /\ [][PowerUpNext]_vars

\* DifficultySpec: sessions that run until the difficulty has reached its
\* limits.  The page is hidden (the timers run, no animation frame does) until
\* the one wave of the session has spawned.
DifficultyNext ==
    \/ StartGame
    \/ FrameBegin(blocksRef # <<>>)
    \/ UpdateRender
    \/ AnimatePlayer
    \/ AnimateBullets
    \/ AnimateObjects
    \/ CheckCollisions
    \/ CheckPlayerCollisions
    \/ GameTimerTick(MaxTicks, {c \in PowerUpChoices : c.type = "slowMotion"})
    \/ SpawnBlockTick(Unbreakable, blockIdRef = 0)
    \/ Render({c \in PowerUpChoices : c.type = "slowMotion"})
    \/ FlushEffects

DifficultySpec == Init /\ [][DifficultyNext]_vars

\* PoolSpec: sessions that fill the bullet pool.  The page is hidden (the
\* timers run, no animation frame does) until as many bullets were fired as
\* the pool holds; they leave the play area in the first frames shown.  The
\* one wave of the session comes when at most MaxLive bullets are left to
\* meet it.
PoolNext ==
    \/ StartGame
    \/ FrameBegin(bulletIdRef >= MAX_BULLETS)
    \/ UpdateRender
    \/ AnimatePlayer
    \/ AnimateBullets
    \/ AnimateObjects
    \/ CheckCollisions
    \/ CheckPlayerCollisions
    \/ ClearHit
    \/ FirePoll(IF bulletPoolRef = <<>> /\ blocksRef = <<>>
                THEN MaxShots ELSE MaxLive)
    \/ SpawnBlockTick(BlockChoices,
                      /\ blockIdRef = 0
                      /\ Len(SelectSeq(bulletsRef,
                                       LAMBDA b : BulletKept(MoveBullet(b))))
                             <= MaxLive)
    \/ Render(PowerUpChoices)
    \/ FlushEffects

PoolSpec == Init /\ [][PoolNext]_vars

\* the blocks of CombatSpec: to the left or in the middle, breakable with two
\* lives or unbreakable
CombatBlocks ==
    {[x |-> x, hp |-> 2, isBreakable |-> TRUE] : x \in {Px(16), Px(80)}}
        \cup {[x |-> x, hp |-> 999, isBreakable |-> FALSE] : x \in {Px(16), Px(80)}}

\* where the pointer drags the player in CombatSpec: beyond the left edge or
\* beyond the right edge
CombatTargets == {[x |-> -Px(10), y |-> 0], [x |-> Px(300), y |-> 0]}

\* CombatSpec: sessions of two waves and up to MaxLive bullets, none fired
\* once one was recycled, the player being dragged between the shots.  The page is hidden (the timers
\* run, no animation frame does) until both waves have spawned, so that their
\* blocks lie on each other, and whenever no bullet is alive.
CombatNext ==
    \/ StartGame
    \/ FrameBegin(blockIdRef >= MaxWaves /\ bulletsRef # <<>>)
    \/ UpdateRender
    \/ AnimatePlayer
    \/ AnimateBullets
    \/ AnimateObjects
    \/ CheckCollisions
    \/ CheckPlayerCollisions
    \/ ClearHit
    \/ FirePoll(IF bulletPoolRef = <<>> THEN MaxLive ELSE 0)
    \/ SpawnBlockTick(CombatBlocks, blockIdRef < MaxWaves)
    \/ TouchStart
    \/ TouchMove(CombatTargets)
    \/ TouchEnd
    \/ Render(PowerUpChoices)
    \/ FlushEffects

CombatSpec == Init /\ [][CombatNext]_vars

\* the windows of DragSpec: wide, wide and low, upright
DragSizes ==
    {[width |-> 200, height |-> 100], [width |-> 200, height |-> 60],
     [width |-> 100, height |-> 200]}

\* where the pointer drags the player in DragSpec: beyond the upper left
\* corner, beyond the lower right corner, inside
DragTargets ==
    {[x |-> -Px(10), y |-> -Px(10)], [x |-> Px(300), y |-> Px(300)],
     [x |-> Px(40), y |-> Px(20)]}

\* DragSpec: a session in which the player is dragged and the window changes
\* its size, before any timer has fired
DragNext ==
    \/ StartGame
    \/ FrameBegin(TRUE)
    \/ UpdateRender
    \/ AnimatePlayer
    \/ AnimateBullets
    \/ AnimateObjects
    \/ CheckCollisions
    \/ CheckPlayerCollisions
    \/ TouchStart
    \/ TouchMove(DragTargets)
    \/ TouchEnd
    \/ ResizeWindow(DragSizes)
    \/ Render(PowerUpChoices)
    \/ FlushEffects

DragSpec == Init /\ [][DragNext]_vars

\* the power-ups of ArsenalSpec: those that change the firing
ArsenalPowerUps ==
    {c \in PowerUpChoices : c.type \in {"fireSpeed", "multiDirectional"}}

\* ArsenalSpec: sessions long enough for a power-up to spawn and to be
\* collected, in which the player fires.  No block falls; the page is hidden
\* while nothing is alive, and a shot is fired only once a power-up was
\* collected and the bullets of the shot before are gone, but for the second
\* bullet of the session if it is a boosted one.
ArsenalNext ==
    \/ StartGame
    \/ FrameBegin(powerUpsRef # <<>> \/ bulletsRef # <<>>)
    \/ UpdateRender
    \/ AnimatePlayer
    \/ AnimateBullets
    \/ AnimateObjects
    \/ CheckCollisions
    \/ CheckPlayerCollisions
    \/ GameTimerTick(MaxSeconds, ArsenalPowerUps)
    \/ PowerUpTimerTick
    \/ FirePoll(IF powerUpIdRef > 0 /\ powerUpsRef = <<>>
                   /\ (bulletsRef = <<>>
                          \/ (bulletIdRef < 2 /\ activePowerUpsRef["fireSpeed"]))
                THEN MaxVolley ELSE 0)
    \/ Render(ArsenalPowerUps)
    \/ FlushEffects

ArsenalSpec == Init /\ [][ArsenalNext]_vars

\* where the pointer drags the player in BallisticSpec: 8 pixels below the
\* top, from where a bullet passes y = -20
BallisticTargets == {[x |-> Px(76), y |-> Px(8)]}

\* BallisticSpec: sessions in which the player is dragged and fires one
\* bullet at a time.  Nothing falls; the page is hidden while no bullet is
\* alive.
BallisticNext ==
    \/ StartGame
    \/ FrameBegin(bulletsRef # <<>>)
    \/ UpdateRender
    \/ AnimatePlayer
    \/ AnimateBullets
    \/ AnimateObjects
    \/ CheckCollisions
    \/ CheckPlayerCollisions
    \/ FirePoll(MaxBullets)
    \/ TouchStart
    \/ TouchMove(BallisticTargets)
    \/ TouchEnd
    \/ Render(PowerUpChoices)
    \/ FlushEffects

BallisticSpec == Init /\ [][BallisticNext]_vars

\* the blocks of FallSpec: over the player a breakable one that the first hit
\* destroys and an unbreakable one, and an unbreakable one to the left of the
\* player, which falls past it
FallBlocks ==
    {[x |-> Px(80), hp |-> 1, isBreakable |-> TRUE],
     [x |-> Px(80), hp |-> 999, isBreakable |-> FALSE],
     [x |-> Px(16), hp |-> 999, isBreakable |-> FALSE]}

\* a block in the line of fire of the player at the start position
InLineOfFire == \E k \in 1..Len(blocksRef) : blocksRef[k].x = Px(80)

\* the power-up of FallSpec: to the left of the player, which falls past it
FallPowerUps == {[x |-> Px(16), type |-> "slowMotion"]}

\* FallSpec: sessions in which a power-up and one wave of blocks fall to the
\* bottom of the play area or on the player, who fires at a block above
\* until a bullet has been recycled.  The page is hidden while nothing is
\* alive, the wave comes when the power-up has spawned and not yet moved, and
\* the game timer stops at the power-up.
FallNext ==
    \/ StartGame
    \/ FrameBegin(blocksRef # <<>> \/ powerUpsRef # <<>>)
    \/ UpdateRender
    \/ AnimatePlayer
    \/ AnimateBullets
    \/ AnimateObjects
    \/ CheckCollisions
    \/ CheckPlayerCollisions
    \/ ClearHit
    \/ GameTimerTick(MaxSeconds - 1, FallPowerUps)
    \/ FirePoll(IF InLineOfFire /\ bulletPoolRef = <<>> THEN MaxBullets ELSE 0)
    \/ SpawnBlockTick(FallBlocks,
                      /\ blockIdRef = 0
                      /\ powerUpsRef # <<>>
                      /\ powerUpsRef[1].y = Px(-50))
    \/ Render(FallPowerUps)
    \/ FlushEffects

FallSpec == Init /\ [][FallNext]_vars

\* the blocks of WaveSpec, to the left of the player: breakable ones of the
\* least and of the greatest durability, and an unbreakable one
WaveBlocks ==
    {[x |-> Px(16), hp |-> 1, isBreakable |-> TRUE],
     [x |-> Px(16), hp |-> 10, isBreakable |-> TRUE],
     [x |-> Px(16), hp |-> 999, isBreakable |-> FALSE]}

\* WaveSpec: sessions of MaxWaveTime seconds in which waves of one and of two
\* blocks spawn, MaxBlocks blocks in all.  Nothing is fired; the page is shown
\* for the first two frames of the oldest block.
WaveNext ==
    \/ StartGame
    \/ FrameBegin(blocksRef # <<>> /\ blocksRef[1].y < Px(-44))
    \/ UpdateRender
    \/ AnimatePlayer
    \/ AnimateBullets
    \/ AnimateObjects
    \/ CheckCollisions
    \/ CheckPlayerCollisions
    \/ GameTimerTick(MaxWaveTime, PowerUpChoices)
    \/ SpawnBlockTick(WaveBlocks, blockIdRef + blockInterval.bpw <= MaxBlocks)
    \/ Render(PowerUpChoices)
    \/ FlushEffects

WaveSpec == Init /\ [][WaveNext]_vars

\* the block of RearmSpec: unbreakable, to the left of the player
RearmBlocks == {c \in WaveBlocks : ~c.isBreakable}

\* the frames of RearmSpec and their callbacks: the page is shown for the
\* first two frames of the oldest block
RearmFrames ==
    \/ FrameBegin(blocksRef # <<>> /\ blocksRef[1].y < Px(-44))
    \/ UpdateRender
    \/ AnimatePlayer
    \/ AnimateBullets
    \/ AnimateObjects
    \/ CheckCollisions
    \/ CheckPlayerCollisions

\* RearmSpec: the sessions of WaveSpec with one kind of block
RearmNext ==
    \/ StartGame
    \/ RearmFrames
    \/ GameTimerTick(MaxWaveTime, PowerUpChoices)
    \/ SpawnBlockTick(RearmBlocks, blockIdRef + blockInterval.bpw <= MaxBlocks)
    \/ Render(PowerUpChoices)
    \/ FlushEffects

RearmSpec == Init /\ [][RearmNext]_vars

\* RearmFairSpec: the sessions of RearmSpec in which the browser runs the
\* frames of a page that is shown, React does the renders and effects it has
\* scheduled, and the block interval fires: a timer that is due runs between
\* two frames, however many frames follow each other.
RearmFairSpec ==
    /\ RearmSpec
    /\ WF_vars(RearmFrames)
    /\ WF_vars(Render(PowerUpChoices))
    /\ WF_vars(FlushEffects)
    /\ SF_vars(SpawnBlockTick(RearmBlocks,
                              blockIdRef + blockInterval.bpw <= MaxBlocks))

\* what Math.random() gives in NarrowSpec: 0 or a half, in halves
Halves == {0, 1}

\* blockX (line 693) and powerUpX (line 235): Math.random() times what the
\* width of the entity leaves of the width of the container
RandomX(halves, width, entityWidth) == (halves * Px(width - entityWidth)) \div 2

\* the sizes of the window in NarrowSpec: 200, 20 and 0 pixels wide
NarrowSizes ==
    {[width |-> 200, height |-> 100], [width |-> 20, height |-> 100],
     [width |-> 0, height |-> 100]}

\* the blocks and power-ups of NarrowSpec, in the container as it is
NarrowBlocks ==
    {[x |-> RandomX(r, containerWidth, 40), hp |-> 1, isBreakable |-> TRUE] :
         r \in Halves}

NarrowPowerUps ==
    {[x |-> RandomX(r, containerWidth, 30), type |-> "slowMotion"] :
         r \in Halves}

\* NarrowSpec: sessions in a window that got its size before the first of
\* them, long enough for a power-up to spawn, with one wave of blocks.
\* Nothing is fired; the page is shown for the first two frames of a block.
NarrowNext ==
    \/ StartGame
    \/ ResizeWindow(IF gameState = "notStarted" THEN NarrowSizes ELSE {})
    \/ FrameBegin(blocksRef # <<>> /\ blocksRef[1].y < Px(-44))
    \/ UpdateRender
    \/ AnimatePlayer
    \/ AnimateBullets
    \/ AnimateObjects
    \/ CheckCollisions
    \/ CheckPlayerCollisions
    \/ GameTimerTick(MaxSeconds, NarrowPowerUps)
    \/ SpawnBlockTick(NarrowBlocks, blockIdRef = 0)
    \/ Render(NarrowPowerUps)
    \/ FlushEffects

NarrowSpec == Init /\ [][NarrowNext]_vars

\* where the pointer drags the player in EdgeSpec: to where its right edge
\* is the left edge of a block at x = 80, and to where the right edge of its
\* bullet is
EdgeTargets == {[x |-> Px(32), y |-> 0], [x |-> Px(52), y |-> 0]}

\* the block of EdgeSpec: one shot destroys it
EdgeBlocks == {c \in BlockChoices : c.hp = 1}

\* the power-up of EdgeSpec, above the start position of the player
EdgePowerUps == {c \in PowerUpChoices : c.type = "fireSpeed"}

\* EdgeSpec: sessions in which the player is dragged beside the place of the
\* one block or stays below it, fires once while the block is in its first
\* three frames, and meets a power-up 20 seconds after the block has gone.
\* The page is hidden while neither a block nor a power-up is alive; the game
\* timer runs once the block has gone.
EdgeNext ==
    \/ StartGame
    \/ FrameBegin(blocksRef # <<>> \/ powerUpsRef # <<>>)
    \/ UpdateRender
    \/ AnimatePlayer
    \/ AnimateBullets
    \/ AnimateObjects
    \/ CheckCollisions
    \/ CheckPlayerCollisions
    \/ ClearHit
    \/ GameTimerTick(IF blockIdRef > 0 /\ blocksRef = <<>>
                     THEN MaxSeconds - 1 ELSE 0, EdgePowerUps)
    \/ FirePoll(IF blocksRef # <<>> /\ blocksRef[1].y < Px(-40)
                   /\ bulletPoolRef = <<>>
                THEN MaxBullets ELSE 0)
    \/ SpawnBlockTick(EdgeBlocks, blockIdRef = 0)
    \/ blockIdRef = 0 /\ TouchStart
    \/ TouchMove(IF blockIdRef = 0 THEN EdgeTargets ELSE {})
    \/ TouchEnd
    \/ Render(EdgePowerUps)
    \/ FlushEffects

EdgeSpec == Init /\ [][EdgeNext]_vars

\* the block of VolleySpec: breakable, with one life
VolleyBlocks == {c \in BlockChoices : c.hp = 1}

\* VolleySpec: sessions in which up to MaxLive bullets are fired, none once
\* one was recycled, and one block falls.  The page is hidden (the timers
\* run, no animation frame does) until the block has spawned.
VolleyNext ==
    \/ StartGame
    \/ FrameBegin(blockIdRef > 0)
    \/ UpdateRender
    \/ AnimatePlayer
    \/ AnimateBullets
    \/ AnimateObjects
    \/ CheckCollisions
    \/ CheckPlayerCollisions
    \/ ClearHit
    \/ FirePoll(IF bulletPoolRef = <<>> THEN MaxLive ELSE 0)
    \/ SpawnBlockTick(VolleyBlocks, blockIdRef = 0)
    \/ Render(PowerUpChoices)
    \/ FlushEffects

VolleySpec == Init /\ [][VolleyNext]_vars

\* the keys that go down and up in KeySpec
MovementKeys == {"right"}

\* where the pointer drags the player in KeySpec: a little to the right
KeyTargets == {[x |-> Px(90), y |-> 0]}

\* KeySpec: sessions in which a movement key goes down and up, the player is
\* dragged and the sound is switched off and on.  Nothing is fired; the page
\* is hidden (no animation frame runs) until the one block of the session
\* has spawned, which is unbreakable and ends the session.
KeyNext ==
    \/ StartGame
    \/ FrameBegin(blocksRef # <<>>)
    \/ UpdateRender
    \/ AnimatePlayer
    \/ AnimateBullets
    \/ AnimateObjects
    \/ CheckCollisions
    \/ CheckPlayerCollisions
    \/ KeyDown(MovementKeys)
    \/ KeyUp(MovementKeys)
    \/ ToggleMute
    \/ TouchStart
    \/ TouchMove(KeyTargets)
    \/ TouchEnd
    \/ SpawnBlockTick(Unbreakable, blockIdRef = 0)
    \/ Render(PowerUpChoices)
    \/ FlushEffects

KeySpec == Init /\ [][KeyNext]_vars

\* ------------------------------------------------------------ properties
\* C1: when the player has run into a block and the game-over screen is up
\* (the game-over render and its effects are done), the final score is the
\* score counter of the core, which holds every point scored up to the
\* collision, those of the fatal frame included.
C1_FinalScoreIsScoreAtCollision ==
    (gameState = "gameOver" /\ pending = <<>> /\ dirty = {})
        => finalScoreRef = scoreRef

\* a session that ended with points and whose final score shows them all
C1_Witness ==
    /\ gameState = "gameOver"
    /\ pending = <<>>
    /\ dirty = {}
    /\ scoreRef > 0
    /\ finalScoreRef = scoreRef

\* C2: when the player collision check has run, and whenever a frame of a
\* playing session is over, if the 48 x 48 box of the player overlaps the
\* 40 x 40 box of a live block, breakable or not, the session is in the
\* game-over state.
C2_OverlapEndsSession ==
    (/\ lastOp = "checkPlayerCollisions" \/ frame = <<>>
     /\ \E k \in 1..Len(blocksRef) :
            /\ positionRef.x < blocksRef[k].x + Px(40)
            /\ positionRef.x + Px(48) > blocksRef[k].x
            /\ positionRef.y < blocksRef[k].y + Px(40)
            /\ positionRef.y + Px(48) > blocksRef[k].y)
        => gameStateRef = "gameOver"

\* the check has just ended a session on a breakable block that a bullet hit
\* in the same frame
C2_Witness ==
    /\ lastOp = "checkPlayerCollisions"
    /\ gameStateRef = "gameOver"
    /\ \E k \in 1..Len(blocksRef) :
           /\ PlayerHitsBlock(positionRef, blocksRef[k])
           /\ blocksRef[k].isBreakable
           /\ blocksRef[k].isHit

\* C3: the session state changes only from notStarted to playing and from
\* gameOver to playing, both by startGame, and from playing to gameOver, by
\* the player collision check finding the player on a block; notStarted is
\* never entered again.  The rendered state follows the same three steps.
C3_Transitions ==
    [][/\ gameStateRef' # gameStateRef =>
              \/ /\ gameStateRef \in {"notStarted", "gameOver"}
                 /\ gameStateRef' = "playing"
                 /\ lastOp' = "startGame"
              \/ /\ gameStateRef = "playing"
                 /\ gameStateRef' = "gameOver"
                 /\ lastOp' = "checkPlayerCollisions"
                 /\ \E k \in 1..Len(blocksRef) :
                        /\ positionRef.x < blocksRef[k].x + Px(40)
                        /\ positionRef.x + Px(48) > blocksRef[k].x
                        /\ positionRef.y < blocksRef[k].y + Px(40)
                        /\ positionRef.y + Px(48) > blocksRef[k].y
       /\ gameState' # gameState =>
              <<gameState, gameState'>> \in
                  {<<"notStarted", "playing">>, <<"playing", "gameOver">>,
                   <<"gameOver", "playing">>}]_vars

\* a restart: startGame has run on the game-over screen
C3_Witness ==
    /\ lastOp = "startGame"
    /\ gameState = "gameOver"
    /\ gameStateRef = "playing"

C5_FrozenOutsidePlay ==
    [][(gameStateRef # "playing" /\ gameStateRef' # "playing") =>
           /\ GameTimeAfter(pending', gameTime') = GameTimeAfter(pending, gameTime)
           /\ DifficultyAfter(DifficultyUpdates(pending', gameTime'),
                              [wave |-> blocksPerWave', speed |-> blockFallSpeed',
                               rate |-> blockSpawnRate'])
                  = DifficultyAfter(DifficultyUpdates(pending, gameTime),
                                    [wave |-> blocksPerWave,
                                     speed |-> blockFallSpeed,
                                     rate |-> blockSpawnRate])
           /\ TimeLeftAfter(pending', powerUpTimeLeft')
                  = TimeLeftAfter(pending, powerUpTimeLeft)
           /\ ActiveAfter(pending', activePowerUps', powerUpTimeLeft')
                  = ActiveAfter(pending, activePowerUps, powerUpTimeLeft)]_vars

\* the effects of the game-over render have cleared the timers of a session
\* that ended with a power-up running
C5_Witness ==
    /\ gameStateRef = "gameOver"
    /\ lastOp = "effects"
    /\ ~gameTimerInterval.armed
    /\ ~powerUpTimerInterval
    /\ gameTime > 0
    /\ \E t \in PowerUpTypes : powerUpTimeLeft[t] > 0

\* C7: with t the elapsed seconds as rendered, a wave has min(1 + t div 10, 5)
\* blocks, the fall speed is 3 + 0.5 * (t div 15) and the spawn interval is
\* max(2000 - 300 * (t div 20), 500); at t = 20 these are 3, 3.5 and 1700.
C7_DifficultyClosedForm ==
    /\ blocksPerWave = Min(1 + gameTime \div 10, 5)
    /\ blockFallSpeed = Px(3) + 2 * (gameTime \div 15)
    /\ blockSpawnRate = Max(2000 - 300 * (gameTime \div 20), 500)
    /\ gameTime = 20 =>
           blocksPerWave = 3 /\ blockFallSpeed = 14 /\ blockSpawnRate = 1700

\* a tick has been rendered at 100 seconds, where both limits are reached
C7_Witness ==
    /\ lastOp = "render"
    /\ gameTime = 100
    /\ blocksPerWave = 5
    /\ blockSpawnRate = 500
    /\ blockFallSpeed = Px(6)

\* C8: but for the reset of a start, no step lowers the fall speed or the
\* blocks per wave or raises the spawn interval; the blocks per wave stay at
\* most 5 and the spawn interval at least 500.
C8_DifficultyMonotone ==
    [][~syncFlush =>
           /\ blockFallSpeed' >= blockFallSpeed
           /\ blocksPerWave' >= blocksPerWave
           /\ blocksPerWave' <= 5
           /\ blockSpawnRate' <= blockSpawnRate
           /\ blockSpawnRate' >= 500]_vars

\* a tick past both limits has been rendered: the parameters stay where they are
C8_Witness ==
    /\ lastOp = "render"
    /\ gameTime > 100
    /\ blocksPerWave = 5
    /\ blockSpawnRate = 500

\* C9: in a playing session, when every dispatched update is rendered, the
\* power-ups spawned since the start number the elapsed seconds divided by 20,
\* rounded down: one for each tick at a positive multiple of 20, none for any
\* other tick
C9_OneSpawnEveryTwentySeconds ==
    (gameStateRef = "playing" /\ pending = <<>>) =>
        powerUpIdRef = gameTime \div 20

\* the tick at 40 seconds has been rendered in play: two power-ups were spawned
C9_Witness ==
    /\ gameStateRef = "playing"
    /\ pending = <<>>
    /\ lastOp = "render"
    /\ gameTime = 40
    /\ powerUpIdRef = 2

\* C10: as rendered, a power-up is active exactly when it has seconds left
C10_ActiveIffTimeLeft ==
    \A t \in PowerUpTypes : activePowerUps[t] <=> powerUpTimeLeft[t] > 0

\* a collected power-up has counted down and is still active
C10_Witness ==
    \E t \in PowerUpTypes :
        /\ activePowerUps[t]
        /\ powerUpTimeLeft[t] > 0
        /\ powerUpTimeLeft[t] < PowerUpDuration(t)

\* C11: a render that applies an activation of a power-up leaves it active with
\* its full duration (5 seconds for slow motion, 10 for the others) less the
\* countdown ticks that follow the activation, whatever it had left; a render
\* without one leaves a power-up what it had less the ticks applied, active
\* exactly while something is left, so that an activation lasts for as many
\* ticks as its duration
C11_ActivationRefreshes ==
    [][(pending # <<>> /\ pending' = <<>> /\ ~HasOp(pending, {"reset"})) =>
           \A t \in PowerUpTypes :
               LET acts == {k \in 1..Len(pending) :
                                pending[k].op = "activate" /\ pending[k].v = t}
                   last == CHOOSE k \in acts : \A j \in acts : j <= k
                   ticks == Cardinality({k \in 1..Len(pending) :
                                             pending[k].op = "puTick"})
                   after == Cardinality({k \in 1..Len(pending) :
                                             pending[k].op = "puTick" /\ k > last})
               IN  IF acts # {}
                   THEN /\ activePowerUps'[t]
                        /\ powerUpTimeLeft'[t] = PowerUpDuration(t) - after
                   ELSE /\ powerUpTimeLeft'[t] = Max(0, powerUpTimeLeft[t] - ticks)
                        /\ ticks = 0 => activePowerUps'[t] = activePowerUps[t]
                        /\ ticks > 0 =>
                               (activePowerUps'[t] <=> powerUpTimeLeft'[t] > 0)]_vars

\* a power-up has been collected, has counted down to nothing and is inactive
C11_Witness ==
    /\ lastOp = "render"
    /\ gameStateRef = "playing"
    /\ powerUpIdRef = 1
    /\ powerUpsRef = <<>>
    /\ activePowerUps = NoPowerUps
    /\ powerUpTimeLeft = NoTimeLeft
    /\ activePowerUpsRef = NoPowerUps
    /\ gameTime = 21

\* C12: the pool never holds more than 100 bullets; when animateBullets or
\* checkCollisions takes k bullets out of the live ones with p in the pool, the
\* pool gains min(k, 100 - p) of them, behind those it had, and the rest is
\* dropped
C12_PoolWithinCapacity ==
    [][/\ Len(bulletPoolRef') <= 100
       /\ (lastOp' \in {"animateBullets", "checkCollisions"} /\ frame' # frame) =>
              LET k == Len(bulletsRef) - Len(bulletsRef')
                  p == Len(bulletPoolRef)
                  added == Min(k, 100 - p)
              IN  /\ Len(bulletPoolRef') = p + added
                  /\ SubSeq(bulletPoolRef', 1, p) = bulletPoolRef
                  /\ {bulletPoolRef'[i] : i \in (p + 1)..(p + added)}
                         \subseteq IdsOf(bulletsRef) \ IdsOf(bulletsRef')]_vars

\* the pool is full and a bullet that was fired is neither alive nor pooled:
\* a release has dropped it
C12_Witness ==
    /\ Len(bulletPoolRef) = 100
    /\ bulletIdRef > Len(bulletPoolRef) + Len(bulletsRef)

\* C13: a shot of n bullets with p in the pool takes the last min(n, p) pooled
\* instances, last first, keeps their ids, overwrites x, y and angle, and leaves
\* the id counter alone for them; the bullets beyond the pool get the counter's
\* successive values and advance it by one each
C13_AcquireReusesPooled ==
    [][(lastOp' = "fireBullet" /\ Len(bulletsRef') > Len(bulletsRef)) =>
           LET m == Len(bulletsRef)
               n == Len(bulletsRef') - m
               p == Len(bulletPoolRef)
               r == Min(n, p)
               shots == Shots(activePowerUpsRef["multiDirectional"])
           IN  /\ n = Len(shots)
               /\ SubSeq(bulletsRef', 1, m) = bulletsRef
               /\ bulletPoolRef' = SubSeq(bulletPoolRef, 1, p - r)
               /\ bulletIdRef' = bulletIdRef + (n - r)
               /\ \A i \in 1..n :
                      /\ bulletsRef'[m + i].id =
                             IF i <= r THEN bulletPoolRef[p - i + 1]
                             ELSE bulletIdRef + (i - r - 1)
                      /\ bulletsRef'[m + i].x =
                             positionRef.x + Px(24) - Px(4) + Px(shots[i].dx)
                      /\ bulletsRef'[m + i].y = positionRef.y - Px(8)
                      /\ bulletsRef'[m + i].angle = shots[i].angle]_vars

\* a shot has just reused a pooled bullet: every bullet ever made is alive or
\* pooled, and the counter stands where the last new one left it
C13_Witness ==
    /\ lastOp = "fireBullet"
    /\ bulletsRef # <<>>
    /\ bulletPoolRef # <<>>
    /\ bulletIdRef = 100
    /\ Len(bulletPoolRef) + Len(bulletsRef) = 100

\* C14: no bullet id occurs twice among the live bullets, none twice in the
\* pool, and none both among the live bullets and in the pool
C14_BulletIdsDistinct ==
    LET pooled == {bulletPoolRef[k] : k \in 1..Len(bulletPoolRef)}
    IN  /\ Cardinality(IdsOf(bulletsRef)) = Len(bulletsRef)
        /\ Cardinality(pooled) = Len(bulletPoolRef)
        /\ IdsOf(bulletsRef) \cap pooled = {}

\* a session after a restart (the last one ended with points) in which one
\* bullet is reused while the others wait in the pool
C14_Witness ==
    /\ gameStateRef = "playing"
    /\ finalScoreRef > 0
    /\ lastOp = "fireBullet"
    /\ Len(bulletsRef) = 1
    /\ Len(bulletPoolRef) = 99

\* C15: one pass of checkCollisions over live bullets and blocks removes
\* exactly the bullets that overlap a block and keeps the others as they
\* were, in their order; a bullet hits the first block it overlaps in the
\* order of the block list and no other; a breakable block loses one life
\* for every bullet that hit it and an unbreakable block none; a block that
\* no bullet hit keeps its lives and its mark.
C15_OneHitPerBullet ==
    [][(/\ lastOp' = "checkCollisions"
        /\ frame' # frame
        /\ gameStateRef = "playing"
        /\ bulletsRef # <<>>
        /\ blocksRef # <<>>) =>
           LET over(b) == {j \in 1..Len(blocksRef) :
                              BulletHitsBlock(b, blocksRef[j])}
               first(b) == CHOOSE j \in over(b) : \A m \in over(b) : j <= m
               hits(j) == Cardinality({i \in 1..Len(bulletsRef) :
                                          /\ over(bulletsRef[i]) # {}
                                          /\ first(bulletsRef[i]) = j})
               struck == [j \in 1..Len(blocksRef) |->
                             [blocksRef[j] EXCEPT
                                 !.hp = IF blocksRef[j].isBreakable
                                        THEN @ - hits(j) ELSE @,
                                 !.isHit = @ \/ hits(j) > 0]]
           IN  /\ bulletsRef' = SelectSeq(bulletsRef, LAMBDA b : over(b) = {})
               /\ blocksRef' =
                      IF \E i \in 1..Len(bulletsRef) : over(bulletsRef[i]) # {}
                      THEN SelectSeq(struck,
                                     LAMBDA k : ~k.isBreakable \/ k.hp > 0)
                      ELSE blocksRef]_vars

C15_Witness ==
    /\ lastOp = "checkCollisions"
    /\ Len(bulletsRef) = 1
    /\ bulletsRef[1].x = Px(172)
    /\ Len(bulletPoolRef) = 1
    /\ Len(blocksRef) = 2
    /\ blocksRef[1].x = Px(16)
    /\ ~blocksRef[1].isHit
    /\ blocksRef[2].x = Px(80)
    /\ blocksRef[2].isHit
    /\ blocksRef[2].hp = 1

\* C16: the score counter of the core changes in no step but a pass of
\* checkCollisions (startGame puts it back to 0).  A pass adds one point for
\* every bullet whose hit took a life from a breakable block, and a breakable
\* block that stays has lost as many lives as bullets hit it.  A bullet that
\* hit an unbreakable block leaves the live bullets and, the pool having
\* room, is in the pool; the unbreakable block stays, with its lives.
C16_ScoreCountsLivesTaken ==
    [][/\ scoreRef' # scoreRef =>
              \/ lastOp' = "checkCollisions" /\ frame' # frame
              \/ lastOp' = "startGame" /\ scoreRef' = 0
       /\ (/\ lastOp' = "checkCollisions"
           /\ frame' # frame
           /\ gameStateRef = "playing"
           /\ bulletsRef # <<>>
           /\ blocksRef # <<>>) =>
              LET over(b) == {j \in 1..Len(blocksRef) :
                                 BulletHitsBlock(b, blocksRef[j])}
                  target(b) == blocksRef[CHOOSE j \in over(b) :
                                             \A m \in over(b) : j <= m]
                  hitters(id) == {i \in 1..Len(bulletsRef) :
                                     /\ over(bulletsRef[i]) # {}
                                     /\ target(bulletsRef[i]).id = id}
                  breakers == {i \in 1..Len(bulletsRef) :
                                  /\ over(bulletsRef[i]) # {}
                                  /\ target(bulletsRef[i]).isBreakable}
                  pooled == {bulletPoolRef'[k] : k \in 1..Len(bulletPoolRef')}
              IN  /\ scoreRef' = scoreRef + Cardinality(breakers)
                  /\ \A k \in 1..Len(blocksRef') :
                         \E j \in 1..Len(blocksRef) :
                             /\ blocksRef[j].id = blocksRef'[k].id
                             /\ blocksRef'[k].hp =
                                    IF blocksRef[j].isBreakable
                                    THEN blocksRef[j].hp
                                             - Cardinality(hitters(blocksRef[j].id))
                                    ELSE blocksRef[j].hp
                  /\ \A j \in 1..Len(blocksRef) :
                         ~blocksRef[j].isBreakable =>
                             \E k \in 1..Len(blocksRef') :
                                 /\ blocksRef'[k].id = blocksRef[j].id
                                 /\ blocksRef'[k].hp = blocksRef[j].hp
                  /\ \A i \in 1..Len(bulletsRef) :
                         (/\ over(bulletsRef[i]) # {}
                          /\ ~target(bulletsRef[i]).isBreakable) =>
                             /\ bulletsRef[i].id \notin IdsOf(bulletsRef')
                             /\ Len(bulletPoolRef) + Len(bulletsRef) <= MAX_BULLETS
                                    => bulletsRef[i].id \in pooled]_vars

C16_Witness ==
    /\ lastOp = "checkCollisions"
    /\ scoreRef = 1
    /\ bulletsRef = <<>>
    /\ Len(bulletPoolRef) = 2
    /\ Len(blocksRef) = 2
    /\ ~blocksRef[1].isBreakable
    /\ blocksRef[1].isHit
    /\ blocksRef[1].hp = 999
    /\ blocksRef[2].isBreakable
    /\ blocksRef[2].isHit
    /\ blocksRef[2].hp = 1

\* C17: whenever the core has marked a change of the bullets, the blocks, the
\* power-ups or the score that updateRender has not published yet, a later
\* updateRender publishes and takes the mark away.
C17_PublishFollowsChange == needsRenderRef ~> ~needsRenderRef

C17_Witness ==
    /\ gameState = "gameOver"
    /\ gameStateRef = "gameOver"
    /\ lastOp = "updateRender"
    /\ needsRenderRef
    /\ scoreRef # score
    /\ pending = <<>>
    /\ dirty = {}

\* C18: while a session is being played the player lies inside the play
\* area: its left edge between 0 and the width less 48, its upper edge
\* between 0 and the height less 48.
C18_PlayerInsidePlayArea ==
    gameStateRef = "playing" =>
        /\ 0 <= positionRef.x
        /\ positionRef.x <= Px(containerWidth - 48)
        /\ 0 <= positionRef.y
        /\ positionRef.y <= Px(containerHeight - 48)

C18_Witness ==
    /\ gameStateRef = "playing"
    /\ lastOp = "touchMove"
    /\ container = [width |-> 200, height |-> 100]
    /\ positionRef = [x |-> Px(152), y |-> Px(52)]

\* C19: every frame that begins in a playing session runs, after
\* updateRender, the loops animatePlayer, animateBullets, animateObjects,
\* checkCollisions and checkPlayerCollisions, each once and in this order; a
\* callback runs to its end (the removal of hit bullets and broken blocks
\* included) before the next one of the frame starts, and nothing else runs
\* in between.
C19_MotionThenBulletsThenPlayer ==
    [][/\ (frame = <<>> /\ frame' # <<>> /\ gameStateRef = "playing") =>
              [k \in 1..Len(frame') |-> frame'[k].cb] =
                  << "updateRender", "animatePlayer", "animateBullets",
                     "animateObjects", "checkCollisions",
                     "checkPlayerCollisions" >>
       /\ frame # <<>> =>
              /\ lastOp' = Head(frame).cb
              /\ \/ frame' = Tail(frame)
                 \/ /\ lastOp' = "checkPlayerCollisions"
                    /\ gameStateRef' = "gameOver"
                    /\ frame' = <<>>]_vars

C19_Witness ==
    /\ gameStateRef = "playing"
    /\ finalScoreRef > 0
    /\ scoreRef > 0
    /\ lastOp = "checkPlayerCollisions"
    /\ frame = <<>>

\* C20: a handler that attempts a sound cue leaves the core as it would with
\* the cue delivered, whether the cue was delivered or failed: startGame has
\* the session playing and its reset queued, a shot is marked for
\* updateRender, a pass of checkCollisions leaves the bullets, the pool, the
\* score, the blocks, the mark, the pending isHit resets and the requested
\* frames of the pass with every hit cue delivered, and triggerGameOver has
\* the session over and the game-over state queued.
C20_CoreDeafToCues ==
    [][/\ lastOp' = "startGame" =>
              /\ gameStateRef' = "playing"
              /\ scoreRef' = 0
              /\ pending' = << ResetUpdate >>
              /\ rafQueue' = StartAnimationLoops(CancelTracked(rafQueue))
       /\ (lastOp' = "fireBullet" /\ Len(bulletsRef') > Len(bulletsRef)) =>
              needsRenderRef' = NeedsRenderAfterFire(Cue("fire", TRUE))
       /\ (/\ lastOp' = "checkCollisions"
           /\ frame' # frame
           /\ gameStateRef = "playing"
           /\ bulletsRef # <<>>
           /\ blocksRef # <<>>) =>
              LET heard == CollisionPass(Cue("hit", TRUE))
              IN  /\ bulletsRef' = heard.bullets
                  /\ bulletPoolRef' = heard.pool
                  /\ scoreRef' = heard.score
                  /\ blocksRef' = heard.blocks
                  /\ needsRenderRef' = heard.needsRender
                  /\ hitTimeouts' = heard.timeouts
                  /\ rafQueue' = heard.raf
       /\ (gameStateRef = "playing" /\ gameStateRef' = "gameOver") =>
              /\ pending' = Append(pending, SetGameStateUpdate("gameOver"))
              /\ rafQueue' = CancelTracked(rafQueue)
              /\ UNCHANGED <<entityVars, finalScoreRef>>]_vars

C20_Witness ==
    /\ lastOp = "checkCollisions"
    /\ cue = Cue("hit", FALSE)
    /\ scoreRef > 0
    /\ bulletPoolRef # <<>>

\* C21: a tick of animatePlayer in a playing session without a drag puts the
\* player where the movement keys held at that moment take it: 5 pixels along
\* each axis with a key held, then the clamp.
C21_PlayerFollowsHeldKeys ==
    [][(/\ lastOp' = "animatePlayer"
        /\ frame' # frame
        /\ gameStateRef = "playing"
        /\ gameState = "playing"
        /\ ~isDragging) =>
           positionRef' = MovedPosition(positionRef, keys)]_vars

C21_Witness ==
    /\ lastOp = "animatePlayer"
    /\ gameStateRef = "playing"
    /\ gameState = "playing"
    /\ ~isDragging
    /\ keys.right
    /\ ~loopKeys.right
    /\ positionRef = NewPosition

\* C22: while a drag is in progress in a playing session, a tick of
\* animatePlayer leaves the player position alone, whatever keys are held.
C22_DragSilencesKeys ==
    [][(/\ lastOp' = "animatePlayer"
        /\ frame' # frame
        /\ gameStateRef = "playing"
        /\ isDragging) =>
           positionRef' = positionRef]_vars

C22_Witness ==
    /\ lastOp = "animatePlayer"
    /\ gameStateRef = "playing"
    /\ isDragging
    /\ loopKeys.right
    /\ ~loopIsDragging
    /\ positionRef.x > NewPosition.x

\* C23: a fire event leaves the live bullets it found as they were and adds
\* three bullets with headings 0, -30 and 30 if the multi-directional effect
\* is active at that moment, one bullet with heading 0 otherwise.
C23_ShotsPerFireEvent ==
    [][(lastOp' = "fireBullet" /\ sinceFire' = 0 /\ bulletsRef' # bulletsRef) =>
           LET m == Len(bulletsRef)
               n == Len(bulletsRef') - m
           IN  /\ SubSeq(bulletsRef', 1, m) = bulletsRef
               /\ [i \in 1..n |-> bulletsRef'[m + i].angle] =
                      IF activePowerUpsRef["multiDirectional"]
                      THEN <<0, -30, 30>>
                      ELSE <<0>>]_vars

\* a shot in three directions has just been fired
C23_Witness ==
    /\ lastOp = "fireBullet"
    /\ sinceFire = 0
    /\ activePowerUpsRef["multiDirectional"]
    /\ Len(bulletsRef) = 3
    /\ bulletsRef[2].angle = -30
    /\ bulletsRef[2].y = positionRef.y - Px(8)

\* C24: a fire event comes at least 200 ms after the one before it, or at
\* least 100 ms if the fire-speed effect is active when it is fired; and a
\* poll of the playing session that finds that much time elapsed is a fire
\* event: time does not run on past the rate without one.
C24_FireRateGate ==
    [][/\ (lastOp' = "fireBullet" /\ bulletsRef' # bulletsRef) =>
              /\ sinceFire + 50 >=
                     (IF activePowerUpsRef["fireSpeed"] THEN 100 ELSE 200)
              /\ sinceFire' = 0
       /\ (sinceFire' # sinceFire /\ sinceFire' # 0) =>
              \/ gameStateRef # "playing"
              \/ sinceFire' <
                     (IF activePowerUpsRef["fireSpeed"] THEN 100 ELSE 200)]_vars

\* a boosted shot has just been fired while the bullet of the shot before it
\* is still alive
C24_Witness ==
    /\ lastOp = "fireBullet"
    /\ sinceFire = 0
    /\ activePowerUpsRef["fireSpeed"]
    /\ Len(bulletsRef) = 2
    /\ bulletsRef[1].y < bulletsRef[2].y

\* C25: a tick of animateBullets in a playing session moves every live bullet
\* of heading 0 up by 10 pixels and keeps it alive exactly if its y is then at
\* least -20; the bullets it does not keep go to the pool.
C25_BulletsLeaveBelowMinus20 ==
    [][(lastOp' = "animateBullets" /\ frame' # frame
            /\ gameStateRef = "playing") =>
           LET ahead == SelectSeq(bulletsRef, LAMBDA b : b.angle = 0)
               moved == [k \in 1..Len(ahead) |->
                             [ahead[k] EXCEPT !.y = @ - Px(10)]]
               gone == SelectSeq(moved, LAMBDA b : b.y < Px(-20))
           IN  /\ SelectSeq(bulletsRef', LAMBDA b : b.angle = 0) =
                      SelectSeq(moved, LAMBDA b : b.y >= Px(-20))
               /\ \A k \in 1..Len(gone) :
                      \/ \E j \in 1..Len(bulletPoolRef') :
                             bulletPoolRef'[j] = gone[k].id
                      \/ Len(bulletPoolRef') = MAX_BULLETS]_vars

\* a tick of animateBullets has just taken away a bullet that it had moved to
\* y = -20
C25_Witness ==
    /\ lastOp = "animateBullets"
    /\ gameStateRef = "playing"
    /\ positionRef.y = Px(8)
    /\ bulletsRef = <<>>
    /\ bulletPoolRef # <<>>
    /\ sinceFire = 0

\* C26: a tick of animateObjects in a playing session leaves alive only
\* blocks and power-ups that it found alive, each changed in y alone: a block
\* by the fall speed of the difficulty, or by half of it under slow motion, a
\* power-up by 2 pixels whether slow motion is active or not.
C26_FallPerTick ==
    [][(lastOp' = "animateObjects" /\ frame' # frame
            /\ gameStateRef = "playing") =>
           /\ Len(blocksRef') <= Len(blocksRef)
           /\ \A k \in 1..Len(blocksRef') :
                  \E j \in 1..Len(blocksRef), d \in 0..blockFallSpeedRef :
                      /\ blocksRef'[k] = [blocksRef[j] EXCEPT !.y = @ + d]
                      /\ IF activePowerUpsRef["slowMotion"]
                         THEN 2 * d = blockFallSpeedRef
                         ELSE d = blockFallSpeedRef
           /\ Len(powerUpsRef') <= Len(powerUpsRef)
           /\ \A k \in 1..Len(powerUpsRef') :
                  \E j \in 1..Len(powerUpsRef) :
                      powerUpsRef'[k] = [powerUpsRef[j] EXCEPT !.y = @ + Px(2)]]_vars

\* a block has just fallen at half speed: it stands a pixel and a half below
\* where it spawned
C26_Witness ==
    /\ lastOp = "animateObjects"
    /\ gameStateRef = "playing"
    /\ activePowerUpsRef["slowMotion"]
    /\ blocksRef # <<>>
    /\ 2 * (blocksRef[1].y - Px(-50)) = blockFallSpeedRef

\* the frame callbacks
TickOps ==
    {"updateRender", "animatePlayer", "animateBullets", "animateObjects",
     "checkCollisions", "checkPlayerCollisions"}

\* C27: when a frame of a playing session has run all its callbacks, every
\* live breakable block has 1 to 10 lives, every live unbreakable block has
\* 999, and every live block and power-up is above y = height + 50.
C27_LiveEntitiesAfterTick ==
    (frame = <<>> /\ lastOp \in TickOps /\ gameStateRef = "playing") =>
        /\ \A k \in 1..Len(blocksRef) :
               /\ blocksRef[k].isBreakable => blocksRef[k].hp \in 1..10
               /\ ~blocksRef[k].isBreakable => blocksRef[k].hp = 999
               /\ blocksRef[k].y < Px(containerHeight + 50)
        /\ \A k \in 1..Len(powerUpsRef) :
               powerUpsRef[k].y < Px(containerHeight + 50)

\* a frame has ended in a session without a hit whose first block is gone,
\* while the second, spawned 60 pixels above it, is less than 60 pixels from
\* the depth at which blocks are dropped
C27_Witness ==
    /\ frame = <<>>
    /\ lastOp \in TickOps
    /\ gameStateRef = "playing"
    /\ scoreRef = 0
    /\ Len(blocksRef) = 1
    /\ blocksRef[1].id = 1
    /\ blocksRef[1].y >= Px(containerHeight + 50 - 60)

\* C28: a call of spawnBlock in the playing state leaves the live blocks as
\* they were and appends as many blocks as the wave size of the difficulty
\* is, the i-th (from 0) at y = -50 - 60 i with the next unused id of the
\* session, breakable with 1 to 10 lives or unbreakable with 999.
C28_WaveAppended ==
    [][(lastOp' = "spawnBlock" /\ blocksRef' # blocksRef) =>
           LET m == Len(blocksRef)
               n == Len(blocksRef') - m
           IN  /\ n = blocksPerWave
               /\ SubSeq(blocksRef', 1, m) = blocksRef
               /\ \A k \in 1..m : blocksRef[k].id < blockIdRef
               /\ blockIdRef' = blockIdRef + n
               /\ \A i \in 1..n :
                      LET block == blocksRef'[m + i]
                      IN  /\ block.y = Px(-50 - 60 * (i - 1))
                          /\ block.id = blockIdRef + (i - 1)
                          /\ IF block.isBreakable THEN block.hp \in 1..10
                             ELSE block.hp = 999]_vars

\* a wave of one block has just spawned above a block that has fallen for
\* two frames, in a session whose wave size is two
C28_Witness ==
    /\ lastOp = "spawnBlock"
    /\ gameStateRef = "playing"
    /\ blocksPerWave = 2
    /\ Len(blocksRef) = 2
    /\ blocksRef[1].y = Px(-44)
    /\ blocksRef[2].y = Px(-50)
    /\ blockIdRef = 2

\* C29: in a container of any width, a block that spawns has its x between 0
\* and the width less 40, and a power-up that spawns has its x between 0 and
\* the width less 30; a spawn that cannot do so adds nothing.
C29_SpawnInsidePlayArea ==
    [][/\ \A k \in (Len(blocksRef) + 1)..Len(blocksRef') :
              /\ blocksRef'[k].x >= 0
              /\ blocksRef'[k].x <= Px(containerWidth - 40)
       /\ \A k \in (Len(powerUpsRef) + 1)..Len(powerUpsRef') :
              /\ powerUpsRef'[k].x >= 0
              /\ powerUpsRef'[k].x <= Px(containerWidth - 30)]_vars

\* in a container 20 pixels wide a block is alive 10 pixels to the left of
\* the play area and a power-up 5 pixels to the left of it
C29_Witness ==
    /\ containerWidth = 20
    /\ gameStateRef = "playing"
    /\ \E k \in 1..Len(blocksRef) : blocksRef[k].x = Px(-10)
    /\ \E k \in 1..Len(powerUpsRef) : powerUpsRef[k].x = Px(-5)

\* C30: a tick of checkPlayerCollisions in which no block touches the player
\* takes away exactly the power-ups that overlap the player and activates
\* each of them: with the updates dispatched by the end of the tick, its kind
\* is active and has its full duration left.
C30_CollectedAndActivated ==
    [][(/\ lastOp' = "checkPlayerCollisions"
        /\ frame' # frame
        /\ gameStateRef = "playing"
        /\ ~PlayerHit(positionRef, blocksRef)) =>
           /\ powerUpsRef' =
                  SelectSeq(powerUpsRef,
                            LAMBDA p : ~PlayerHitsPowerUp(positionRef, p))
           /\ \A k \in 1..Len(powerUpsRef) :
                  PlayerHitsPowerUp(positionRef, powerUpsRef[k]) =>
                      /\ ActiveAfter(pending', activePowerUps,
                                     powerUpTimeLeft)[powerUpsRef[k].type]
                      /\ TimeLeftAfter(pending', powerUpTimeLeft)[
                             powerUpsRef[k].type] =
                                 PowerUpDuration(powerUpsRef[k].type)]_vars

\* a tick has just collected a power-up behind a countdown that waits to be
\* rendered
C30_Witness ==
    /\ lastOp = "checkPlayerCollisions"
    /\ gameStateRef = "playing"
    /\ powerUpsRef = <<>>
    /\ powerUpIdRef = 1
    /\ Len(pending) >= 2
    /\ pending[Len(pending)].op = "activate"
    /\ \E k \in 1..Len(pending) : pending[k].op = "puTick" /\ ~pending[k].eager
    /\ ~ActiveAfter(pending, activePowerUps,
                    powerUpTimeLeft)[pending[Len(pending)].v]

\* the rectangles of width aw and height ah at (ax, ay) and of width bw and
\* height bh at (bx, by), in pixels, have an intersection of positive area
PositiveArea(ax, ay, aw, ah, bx, by, bw, bh) ==
    /\ Max(ax, bx) < Min(ax + Px(aw), bx + Px(bw))
    /\ Max(ay, by) < Min(ay + Px(ah), by + Px(bh))

\* the rectangles share an edge or a corner and nothing else
EdgeContact(ax, ay, aw, ah, bx, by, bw, bh) ==
    /\ Max(ax, bx) <= Min(ax + Px(aw), bx + Px(bw))
    /\ Max(ay, by) <= Min(ay + Px(ah), by + Px(bh))
    /\ ~PositiveArea(ax, ay, aw, ah, bx, by, bw, bh)

\* C31: a collision is an intersection of positive area of a bullet 8 x 16, a
\* block 40 x 40, a power-up 30 x 30 and the player 48 x 48, never a shared
\* edge or corner: a pass of checkCollisions that completes takes away
\* exactly the bullets that so intersect a live block, and a tick of
\* checkPlayerCollisions ends the session exactly if the player so intersects
\* a live block and otherwise takes away exactly the power-ups that so
\* intersect the player.
C31_OpenIntervalOverlap ==
    [][/\ (/\ frame # <<>>
           /\ Head(frame).cb = "checkCollisions"
           /\ lastOp' = "checkCollisions"
           /\ gameStateRef = "playing"
           /\ rafQueue' # rafQueue) =>
              bulletsRef' =
                  SelectSeq(bulletsRef,
                            LAMBDA b : ~\E k \in 1..Len(blocksRef) :
                                PositiveArea(b.x, b.y, 8, 16,
                                             blocksRef[k].x, blocksRef[k].y,
                                             40, 40))
       /\ (/\ frame # <<>>
           /\ Head(frame).cb = "checkPlayerCollisions"
           /\ lastOp' = "checkPlayerCollisions"
           /\ gameStateRef = "playing"
           /\ playerRefCurrent) =>
              LET crushed ==
                      \E k \in 1..Len(blocksRef) :
                          PositiveArea(positionRef.x, positionRef.y, 48, 48,
                                       blocksRef[k].x, blocksRef[k].y, 40, 40)
              IN  /\ (gameStateRef' = "gameOver") <=> crushed
                  /\ ~crushed =>
                         powerUpsRef' =
                             SelectSeq(powerUpsRef,
                                       LAMBDA p :
                                           ~PositiveArea(positionRef.x,
                                                         positionRef.y, 48, 48,
                                                         p.x, p.y, 30, 30))]_vars

\* the session goes on after a tick of checkPlayerCollisions that met the
\* player with its right edge on the left edge of a block beside it
C31_Witness ==
    /\ lastOp = "checkPlayerCollisions"
    /\ gameStateRef = "playing"
    /\ \E k \in 1..Len(blocksRef) :
           /\ positionRef.x + Px(48) = blocksRef[k].x
           /\ EdgeContact(positionRef.x, positionRef.y, 48, 48,
                          blocksRef[k].x, blocksRef[k].y, 40, 40)


\* the blocks s without their just-hit flags
NoFlags(s) == [k \in 1..Len(s) |-> [s[k] EXCEPT !.isHit = FALSE]]

\* a live block with this id is flagged just-hit
Flagged(id) ==
    \E k \in 1..Len(blocksRef) : blocksRef[k].id = id /\ blocksRef[k].isHit

\* C32: a block flagged just-hit is in the end unflagged or gone from the
\* live blocks, whatever frames, timers and the end of the session come in
\* between; the deferred action changes nothing but flags, and a pass of
\* checkCollisions leaves the lives, the score and the blocks that it would
\* leave had no block been flagged.
C32_HitFlagCleared ==
    /\ \A id \in 0..MaxSpawned : Flagged(id) ~> ~Flagged(id)
    /\ [][/\ (lastOp' = "clearHit" /\ hitTimeouts' # hitTimeouts) =>
                  /\ NoFlags(blocksRef') = NoFlags(blocksRef)
                  /\ scoreRef' = scoreRef
          /\ (/\ frame # <<>>
              /\ Head(frame).cb = "checkCollisions"
              /\ lastOp' = "checkCollisions"
              /\ gameStateRef = "playing"
              /\ bulletsRef' # bulletsRef) =>
                 LET scan == CollideFrom(bulletsRef, 1, NoFlags(blocksRef),
                                         <<>>, 0)
                 IN  /\ NoFlags(blocksRef') =
                            NoFlags(SelectSeq(scan.blocks, BlockSurvives))
                     /\ scoreRef' = scoreRef + scan.points]_vars

\* the session has ended with a block still flagged just-hit, and the
\* deferred action has not run yet
C32_Witness ==
    /\ gameStateRef = "gameOver"
    /\ hitTimeouts > 0
    /\ \E id \in 0..MaxSpawned : Flagged(id)

RECURSIVE Lives(_)
\* the lives that the breakable blocks among s have together
Lives(s) ==
    IF s = <<>> THEN 0
    ELSE (IF Head(s).isBreakable THEN Head(s).hp ELSE 0) + Lives(Tail(s))

\* C33: a pass of checkCollisions adds to the score the lives that it takes
\* from the breakable blocks, a block that it removes counting for the lives
\* it had: no block gives more points than it has lives, however many
\* bullets overlap it in the pass.
C33_ScoreWithinDurability ==
    [][(/\ frame # <<>>
        /\ Head(frame).cb = "checkCollisions"
        /\ lastOp' = "checkCollisions"
        /\ gameStateRef = "playing") =>
           scoreRef' - scoreRef = Lives(blocksRef) - Lives(blocksRef')]_vars

\* a pass has removed the one block of the session, which had one life, and
\* the score is above 1
C33_Witness ==
    /\ lastOp = "checkCollisions"
    /\ gameStateRef = "playing"
    /\ blockIdRef = 1
    /\ blocksRef = <<>>
    /\ scoreRef > 1

\* C34: a tick of checkPlayerCollisions that finds the player overlapping a
\* live block and a live power-up ends the session and collects nothing: the
\* live power-ups stay as they are, no activation is dispatched, and the
\* active kinds and their times left keep their values.
C34_GameOverBeforeCollect ==
    [][(/\ frame # <<>>
        /\ Head(frame).cb = "checkPlayerCollisions"
        /\ lastOp' = "checkPlayerCollisions"
        /\ gameStateRef = "playing"
        /\ playerRefCurrent
        /\ \E k \in 1..Len(blocksRef) :
               PlayerHitsBlock(positionRef, blocksRef[k])
        /\ \E k \in 1..Len(powerUpsRef) :
               PlayerHitsPowerUp(positionRef, powerUpsRef[k])) =>
           /\ gameStateRef' = "gameOver"
           /\ powerUpsRef' = powerUpsRef
           /\ activePowerUpsRef' = activePowerUpsRef
           /\ activePowerUps' = activePowerUps
           /\ powerUpTimeLeft' = powerUpTimeLeft
           /\ CountOps(pending', {"activate"}) = CountOps(pending, {"activate"})
           /\ ActiveAfter(pending', activePowerUps, powerUpTimeLeft) =
                  ActiveAfter(pending, activePowerUps, powerUpTimeLeft)]_vars

\* a tick has just ended the session with a block and a power-up both
\* overlapping the player, and the power-up is still alive
C34_Witness ==
    /\ lastOp = "checkPlayerCollisions"
    /\ gameStateRef = "gameOver"
    /\ \E k \in 1..Len(blocksRef) : PlayerHitsBlock(positionRef, blocksRef[k])
    /\ \E k \in 1..Len(powerUpsRef) :
           PlayerHitsPowerUp(positionRef, powerUpsRef[k])

\* the five loops that startAnimationLoops starts
Loops ==
    {"animatePlayer", "animateBullets", "animateObjects", "checkCollisions",
     "checkPlayerCollisions"}

\* the requests of loop cb that wait for the next frame or for their turn in
\* the frame that runs
Scheduled(cb) ==
    Cardinality({k \in 1..Len(rafQueue) : rafQueue[k].cb = cb})
        + Cardinality({k \in 1..Len(frame) : frame[k].cb = cb})

\* C35: each of the five loops has at most one request waiting, none while
\* the session is not playing, and exactly one, for the next frame, whenever
\* a playing session is between two frames, after a restart as in the first
\* session.
C35_OneRequestPerLoop ==
    \A cb \in Loops :
        /\ Scheduled(cb) <= 1
        /\ gameStateRef # "playing" => Scheduled(cb) = 0
        /\ (gameStateRef = "playing" /\ frame = <<>>) =>
               Cardinality({k \in 1..Len(rafQueue) : rafQueue[k].cb = cb}) = 1

\* Play Again has just been clicked on the game-over screen, and each loop
\* has one request waiting
C35_Witness ==
    /\ lastOp = "startGame"
    /\ gameState = "gameOver"
    /\ gameStateRef = "playing"
    /\ \A cb \in Loops : Scheduled(cb) = 1

\* the block interval as the effect of the current render makes it
ArmedNow == [armed |-> TRUE, bpw |-> blocksPerWave, rate |-> blockSpawnRate]

====
